---- MODULE Spec2Model ----
(***************************************************************************)
(* State-machine model of TrustAPIClient (server/src/trust-api.ts): the    *)
(* sliding-window rate limiter (applyRateLimit), the retrying transport    *)
(* (makeRequest, sleep) and the two facade operations scoreTransaction and *)
(* sendFeedback.  Time is the value of Date.now() in milliseconds.  A call *)
(* is one invocation of scoreTransaction or sendFeedback; calls are kept   *)
(* in arrival order, which is a total order because the code that runs     *)
(* before the first await of a call is not interleaved with anything.      *)
(***************************************************************************)
EXTENDS Integers, Sequences, FiniteSets, TLC

VARIABLES
    now,           \* Date.now()
    requests,      \* this.rateLimiter.requests
    calls,         \* the calls issued so far, in arrival order
    toIssue,       \* calls the callers have still to issue
    maxRetries,    \* this.maxRetries
    retryDelay,    \* this.retryDelay
    timeout,       \* this.timeout
    rateLimitQPS,  \* this.rateLimitQPS
    input,         \* the input handed to buildRequest
    built,         \* the request buildRequest returned
    validation,    \* the ValidationResult RequestValidator.validateRequest returned
    value,         \* the value handed to cleanObject
    cleaned        \* the values returned by cleanObject, applied again and again

config == <<maxRetries, retryDelay, timeout, rateLimitQPS>>
canon == <<input, built, validation, value, cleaned>>
vars == <<now, requests, calls, toIssue, maxRetries, retryDelay, timeout, rateLimitQPS,
          input, built, validation, value, cleaned>>

----------------------------------------------------------------------------
(* Bounds of the model.                                                    *)

MaxCalls == 4            \* calls issued in SpecRate
MaxArrival == 2500       \* the callers issue their calls up to this time
TickStep == 500          \* time between the moments at which callers issue calls
CfgMaxRetries == 3       \* config.maxRetries in Spec
CfgRetryDelay == 500     \* config.retryDelay in Spec
CfgTimeout == 500        \* config.timeout in Spec
CfgRateLimitQPS == 1     \* config.rateLimitQPS in Spec and SpecRate
MaxItems == 2            \* items of an array handed to cleanObject
ConcCalls == 2           \* calls issued in SpecConc
ConcArrival == 500       \* the callers of SpecConc issue their calls up to this time

(* Program constants.                                                      *)

DefaultMaxRetries == 3       \* config.maxRetries ?? 3
DefaultRetryDelay == 1000    \* config.retryDelay ?? 1000
DefaultTimeout == 30000      \* config.timeout ?? 30000
DefaultRateLimitQPS == 10    \* config.rateLimitQPS ?? 10
WindowMs == 1000             \* now - 1000
BufferMs == 10               \* + 10, the 10ms buffer
MaxFeedbacks == 1000         \* feedbacks.length > 1000
TIMEOUT_MAX == 2147483647    \* largest delay setTimeout honours

NoTime == 0 - 1              \* a time field that is not set

----------------------------------------------------------------------------
(* JavaScript numbers that may be NaN: <<n>> is the number n, <<>> is NaN. *)

NaN == <<>>
Num(n) == <<n>>
Times(x, k) == IF x = NaN THEN NaN ELSE Num(x[1] * k)

(* Strings that the code parses are sequences of one-character strings.    *)

DigitChars == <<"0", "1", "2", "3", "4", "5", "6", "7", "8", "9">>
IsDigit(c) == \E i \in 1..10 : DigitChars[i] = c
DigitVal(c) == (CHOOSE i \in 1..10 : DigitChars[i] = c) - 1

RECURSIVE SkipSpaces(_)
SkipSpaces(s) ==
    IF s # <<>> /\ Head(s) = " " THEN SkipSpaces(Tail(s)) ELSE s

RECURSIVE DigitPrefix(_, _, _)
\* <<value of the leading digits of s, number of leading digits>>
DigitPrefix(s, acc, n) ==
    IF s # <<>> /\ IsDigit(Head(s))
    THEN DigitPrefix(Tail(s), acc * 10 + DigitVal(Head(s)), n + 1)
    ELSE <<acc, n>>

\* parseInt(string): leading white space, an optional sign, then the longest
\* prefix of decimal digits; NaN when there is no digit.
parseInt(str) ==
    LET s == SkipSpaces(str)
        neg == s # <<>> /\ Head(s) = "-"
        t == IF s # <<>> /\ Head(s) \in {"-", "+"} THEN Tail(s) ELSE s
        p == DigitPrefix(t, 0, 0)
    IN  IF p[2] = 0 THEN NaN
        ELSE IF neg THEN Num(0 - p[1]) ELSE Num(p[1])

\* setTimeout(resolve, ms): a delay that is NaN, below 1 or above TIMEOUT_MAX
\* is replaced by 1.
TimerDelay(ms) ==
    IF ms = NaN THEN 1
    ELSE IF ms[1] < 1 \/ ms[1] > TIMEOUT_MAX THEN 1
    ELSE ms[1]

----------------------------------------------------------------------------
(* Optional values (undefined / null in the source) are <<>> or <<v>>.     *)

Undefined == <<>>
Some(v) == <<v>>

\* new TrustAPIError(message, code, httpStatus): code and httpStatus are
\* fields of the error only when they are defined.
TrustAPIError(message, code, httpStatus) ==
    [name |-> "TrustAPIError", message |-> message]
        @@ (IF code = Undefined THEN <<>> ELSE [code |-> code[1]])
        @@ (IF httpStatus = Undefined THEN <<>> ELSE [httpStatus |-> httpStatus[1]])

\* An error that is not a TrustAPIError (FetchError, TypeError).
OtherError(name, message) == [name |-> name, message |-> message]

NoError == [name |-> "none"]

----------------------------------------------------------------------------
(* Local validation of a score request (TrustAPIClient.validateRequest).   *)
(* A request is a record; a field that is not provided is not in its       *)
(* domain.  name, phone and address objects are records of strings.        *)

\* obj.f is truthy: the string field f is present and not empty.
Truthy(obj, f) == f \in DOMAIN obj /\ obj[f] # ""

\* getNestedValue(obj, path): path is <<field>> or <<group, field>>; the
\* walk stops at the first missing part.
getNestedValue(obj, path) ==
    IF path[1] \notin DOMAIN obj THEN Undefined
    ELSE IF Len(path) = 1 THEN Some(obj[path[1]])
    ELSE IF path[2] \notin DOMAIN obj[path[1]] THEN Undefined
    ELSE Some(obj[path[1]][path[2]])

PathText(path) ==
    IF Len(path) = 1 THEN path[1] ELSE path[1] \o "?." \o path[2]

FieldPaths(f) == << <<f>>, <<"account", f>>, <<"billing", f>>, <<"shipping", f>> >>

\* The error one phone object raises, if any.
PhoneError(phone, path) ==
    IF ~Truthy(phone, "raw") /\ (~Truthy(phone, "country_code") \/ ~Truthy(phone, "number"))
    THEN Some(TrustAPIError("Phone object at " \o PathText(path)
              \o " must have either 'raw' or both 'country_code' and 'number'",
              Some(1015), Undefined))
    ELSE IF Truthy(phone, "raw") /\ (Truthy(phone, "country_code") \/ Truthy(phone, "number"))
    THEN Some(TrustAPIError("Phone object at " \o PathText(path)
              \o " cannot have 'raw' with other fields", Some(1024), Undefined))
    ELSE Undefined

AddressError(address, path) ==
    IF /\ ~Truthy(address, "raw") /\ ~Truthy(address, "country")
       /\ ~Truthy(address, "state") /\ ~Truthy(address, "zip_code")
       /\ ~Truthy(address, "city")
    THEN Some(TrustAPIError("Address object at " \o PathText(path)
              \o " must have at least one of: raw, country, state, zip_code, or city",
              Some(1017), Undefined))
    ELSE IF Truthy(address, "raw") /\ Cardinality(DOMAIN address) > 1
    THEN Some(TrustAPIError("Address object at " \o PathText(path)
              \o " cannot have 'raw' with other fields", Some(1024), Undefined))
    ELSE Undefined

NameError(name, path) ==
    IF ~Truthy(name, "raw") /\ (~Truthy(name, "first_name") \/ ~Truthy(name, "last_name"))
    THEN Some(TrustAPIError("Name object at " \o PathText(path)
              \o " must have either 'raw' or both 'first_name' and 'last_name'",
              Some(2023), Undefined))
    ELSE IF Truthy(name, "raw") /\ (Truthy(name, "first_name") \/ Truthy(name, "last_name"))
    THEN Some(TrustAPIError("Name object at " \o PathText(path)
              \o " cannot have 'raw' with other fields", Some(1024), Undefined))
    ELSE Undefined

\* for (const path of paths): the first object that raises an error throws.
RECURSIVE FirstError(_)
FirstError(es) ==
    IF es = <<>> THEN Undefined
    ELSE IF Head(es) # Undefined THEN Head(es)
    ELSE FirstError(Tail(es))

validatePhoneObjects(request) ==
    FirstError([i \in 1..Len(FieldPaths("phone")) |->
        LET v == getNestedValue(request, FieldPaths("phone")[i])
        IN  IF v = Undefined THEN Undefined
            ELSE PhoneError(v[1], FieldPaths("phone")[i])])

validateAddressObjects(request) ==
    FirstError([i \in 1..Len(FieldPaths("address")) |->
        LET v == getNestedValue(request, FieldPaths("address")[i])
        IN  IF v = Undefined THEN Undefined
            ELSE AddressError(v[1], FieldPaths("address")[i])])

validateNameObjects(request) ==
    FirstError([i \in 1..Len(FieldPaths("name")) |->
        LET v == getNestedValue(request, FieldPaths("name")[i])
        IN  IF v = Undefined THEN Undefined
            ELSE NameError(v[1], FieldPaths("name")[i])])

DataFields ==
    {"account", "billing", "shipping", "sender", "recipient", "name", "email",
     "phone", "address", "device", "browser", "card", "order", "page",
     "payment", "session", "person", "personal_identifier", "locale",
     "custom", "metadata"}

\* validateRequest(request): Undefined when the request passes, else the
\* error thrown.
validateRequest(request) ==
    IF ~("action" \in DOMAIN request /\ Truthy(request.action, "type"))
    THEN Some(TrustAPIError("Action type is required", Some(2030), Undefined))
    ELSE IF DOMAIN request \cap DataFields = {}
    THEN Some(TrustAPIError("At least one data field is required (name, email, phone, address, sender, recipient, etc.)",
              Some(2023), Undefined))
    ELSE IF validatePhoneObjects(request) # Undefined THEN validatePhoneObjects(request)
    ELSE IF validateAddressObjects(request) # Undefined THEN validateAddressObjects(request)
    ELSE validateNameObjects(request)

\* The score requests the callers issue.
ScoreRequests ==
    { [email |-> [address |-> "jo@example.com"]],
      [action |-> [type |-> "login"], account |-> [name |-> [raw |-> "Jo Doe"]]],
      [action |-> [type |-> "purchase"]],
      [phone |-> [raw |-> "555-1234", number |-> "5551234"]] }

\* The numbers of feedback items the callers send.
FeedbackCounts == {0, 1, MaxFeedbacks, MaxFeedbacks + 1}

----------------------------------------------------------------------------
(* JSON-like values, as buildRequest, cleanObject and RequestValidator     *)
(* meet them: a value is a record with one field, named after its type     *)
(* (typeof, Array.isArray, === null).                                      *)
(* A string is its sequence of one-character strings, an array the         *)
(* sequence of its items, an object the function from its keys to their    *)
(* values.                                                                 *)

Null == [null |-> TRUE]
Undef == [undefined |-> TRUE]
Str(chars) == [string |-> chars]
Number(n) == [number |-> n]
Bool(b) == [boolean |-> b]
Arr(items) == [array |-> items]
Obj(fields) == [object |-> fields]

\* typeof, with "null" and "array" told apart, and what the value holds.
TypeOf(x) == CHOOSE t \in DOMAIN x : TRUE
ValueOf(x) == x[TypeOf(x)]

\* No function runs on the request path: the variables of canonicalization
\* hold nothing.
NoValidation == [valid |-> TRUE, errors |-> <<>>, warnings |-> <<>>, ran |-> FALSE]

CanonIdle ==
    /\ input = Undef
    /\ built = Undef
    /\ validation = NoValidation
    /\ value = Undef
    /\ cleaned = <<>>

\* String.prototype.trim: white space is removed at both ends.
IsSpace(c) == c \in {" ", "\t", "\n", "\r"}

RECURSIVE TrimStart(_)
TrimStart(s) == IF s # <<>> /\ IsSpace(Head(s)) THEN TrimStart(Tail(s)) ELSE s

RECURSIVE TrimEnd(_)
TrimEnd(s) ==
    IF s # <<>> /\ IsSpace(s[Len(s)]) THEN TrimEnd(SubSeq(s, 1, Len(s) - 1)) ELSE s

Trim(s) == TrimEnd(TrimStart(s))

\* String.prototype.toLowerCase, on the letters A to Z.
UpperChars ==
    <<"A", "B", "C", "D", "E", "F", "G", "H", "I", "J", "K", "L", "M",
      "N", "O", "P", "Q", "R", "S", "T", "U", "V", "W", "X", "Y", "Z">>
LowerChars ==
    <<"a", "b", "c", "d", "e", "f", "g", "h", "i", "j", "k", "l", "m",
      "n", "o", "p", "q", "r", "s", "t", "u", "v", "w", "x", "y", "z">>

ToLowerCase(s) ==
    [i \in 1..Len(s) |->
        IF \E k \in 1..26 : UpperChars[k] = s[i]
        THEN LowerChars[CHOOSE k \in 1..26 : UpperChars[k] = s[i]]
        ELSE s[i]]

\* The strings isEmptyValue takes for "not provided", trimmed and in lower
\* case: '', 'n/a', 'na', 'null', 'none'.
EmptyStrings ==
    { <<>>, <<"n", "/", "a">>, <<"n", "a">>, <<"n", "u", "l", "l">>,
      <<"n", "o", "n", "e">> }

isEmptyValue(x) ==
    IF TypeOf(x) \in {"null", "undefined"} THEN TRUE
    ELSE IF TypeOf(x) = "string" THEN ToLowerCase(Trim(ValueOf(x))) \in EmptyStrings
    ELSE IF TypeOf(x) = "object" THEN DOMAIN ValueOf(x) = {}
    ELSE FALSE

\* Mutant of cleanObject: the items of an array are filtered before they
\* are cleaned.
RECURSIVE cleanObject_FilterFirst(_)
cleanObject_FilterFirst(x) ==
    IF TypeOf(x) \notin {"object", "array"}
    THEN IF isEmptyValue(x) THEN Undef ELSE x
    ELSE IF TypeOf(x) = "array"
    THEN LET kept == SelectSeq(ValueOf(x), LAMBDA item : ~isEmptyValue(item))
         IN  Arr([i \in 1..Len(kept) |-> cleanObject_FilterFirst(kept[i])])
    ELSE LET keys == { k \in DOMAIN ValueOf(x) : ~isEmptyValue(cleanObject_FilterFirst(ValueOf(x)[k])) }
         IN  IF keys # {} THEN Obj([k \in keys |-> cleanObject_FilterFirst(ValueOf(x)[k])])
             ELSE Undef

\* cleanObject(obj)
RECURSIVE cleanObject(_)
cleanObject(x) ==
    IF TypeOf(x) \notin {"object", "array"}
    THEN IF isEmptyValue(x) THEN Undef ELSE x
    ELSE IF TypeOf(x) = "array"
    THEN Arr(SelectSeq([i \in 1..Len(ValueOf(x)) |-> cleanObject(ValueOf(x)[i])],
                       LAMBDA item : ~isEmptyValue(item)))
    ELSE LET keys == { k \in DOMAIN ValueOf(x) : ~isEmptyValue(cleanObject(ValueOf(x)[k])) }
         IN  IF keys # {} THEN Obj([k \in keys |-> cleanObject(ValueOf(x)[k])])
             ELSE Undef

----------------------------------------------------------------------------
(* buildRequest and what it calls.                                         *)

\* A value in a condition: null, undefined, '', 0 and false are falsy.
IsTruthy(x) ==
    IF TypeOf(x) \in {"null", "undefined"} THEN FALSE
    ELSE IF TypeOf(x) = "string" THEN ValueOf(x) # <<>>
    ELSE IF TypeOf(x) = "number" THEN ValueOf(x) # 0
    ELSE IF TypeOf(x) = "boolean" THEN ValueOf(x)
    ELSE TRUE

\* x.k and x?.k: undefined when x is not an object that has the key.
Get(x, k) == IF TypeOf(x) = "object" /\ k \in DOMAIN ValueOf(x) THEN ValueOf(x)[k] ELSE Undef

\* The key that a sequence of characters spells.
RECURSIVE Join(_)
Join(chars) == IF chars = <<>> THEN "" ELSE Head(chars) \o Join(Tail(chars))

\* Mutant of normalizeField: a device string is wrapped as {raw: value}.
normalizeField_DeviceRaw(fieldType, x) ==
    IF TypeOf(x) \in {"object", "array"} THEN x
    ELSE IF TypeOf(x) = "string"
    THEN IF fieldType \in {"email", "phone", "address", "name", "device"} THEN Obj([raw |-> x])
         ELSE x
    ELSE x

\* normalizeField(fieldType, value)
normalizeField(fieldType, x) ==
    IF TypeOf(x) \in {"object", "array"}
    THEN IF fieldType = "email" /\ (IsTruthy(Get(x, "raw")) \/ IsTruthy(Get(x, "address"))) THEN x
         ELSE IF fieldType = "phone" /\ (IsTruthy(Get(x, "raw")) \/ IsTruthy(Get(x, "number"))) THEN x
         ELSE IF fieldType = "address" /\ (IsTruthy(Get(x, "raw")) \/ IsTruthy(Get(x, "country"))
                                             \/ IsTruthy(Get(x, "city"))) THEN x
         ELSE IF fieldType = "device" /\ (IsTruthy(Get(x, "ip")) \/ IsTruthy(Get(x, "fingerprint"))) THEN x
         ELSE x
    ELSE IF TypeOf(x) = "string"
    THEN IF fieldType \in {"email", "phone", "address", "name"} THEN Obj([raw |-> x])
         ELSE IF fieldType = "device" THEN Obj([ip |-> x])
         ELSE x
    ELSE x

\* Object.entries(x) of an object or an array, as a function from keys: the
\* keys of an array are its indices "0", "1", ...
Entries(x) ==
    IF TypeOf(x) = "array"
    THEN [k \in { ToString(i - 1) : i \in 1..Len(ValueOf(x)) } |->
             ValueOf(x)[CHOOSE i \in 1..Len(ValueOf(x)) : ToString(i - 1) = k]]
    ELSE ValueOf(x)

\* normalizeGroupFields(group)
normalizeGroupFields(group) ==
    IF TypeOf(group) \notin {"object", "array"} THEN group
    ELSE Obj([k \in DOMAIN Entries(group) |-> normalizeField(k, Entries(group)[k])])

\* JSON.parse(text), for texts without escapes, fractions and exponents:
\* [ok |-> FALSE] when it throws.  A parse at index i returns the value and
\* the index after it.
ParseFail == [ok |-> FALSE]
ParseOk(v, i) == [ok |-> TRUE, val |-> v, i |-> i]

RECURSIVE SkipWs(_, _)
SkipWs(s, i) == IF i <= Len(s) /\ IsSpace(s[i]) THEN SkipWs(s, i + 1) ELSE i

\* s holds lit at index i.
HasAt(s, i, lit) ==
    /\ i + Len(lit) - 1 <= Len(s)
    /\ SubSeq(s, i, i + Len(lit) - 1) = lit

\* s[i] is the opening quote.
ParseString(s, i) ==
    LET ends == { j \in (i + 1)..Len(s) : s[j] = "\"" }
    IN  IF ends = {} THEN ParseFail
        ELSE LET j == CHOOSE e \in ends : \A f \in ends : e <= f
             IN  IF \E m \in (i + 1)..(j - 1) : s[m] = "\\" THEN ParseFail
                 ELSE ParseOk(Str(SubSeq(s, i + 1, j - 1)), j + 1)

ParseNumber(s, i) ==
    LET neg == s[i] = "-"
        from == IF neg THEN i + 1 ELSE i
        d == DigitPrefix(SubSeq(s, from, Len(s)), 0, 0)
    IN  IF d[2] = 0 \/ (d[2] > 1 /\ s[from] = "0") THEN ParseFail
        ELSE ParseOk(Number(IF neg THEN 0 - d[1] ELSE d[1]), from + d[2])

RECURSIVE ParseValue(_, _)
RECURSIVE ParseElements(_, _, _)
RECURSIVE ParseMembers(_, _, _)

ParseValue(s, i0) ==
    LET i == SkipWs(s, i0)
    IN  IF i > Len(s) THEN ParseFail
        ELSE IF s[i] = "{"
        THEN IF SkipWs(s, i + 1) <= Len(s) /\ s[SkipWs(s, i + 1)] = "}"
             THEN ParseOk(Obj(<<>>), SkipWs(s, i + 1) + 1)
             ELSE ParseMembers(s, i + 1, <<>>)
        ELSE IF s[i] = "["
        THEN IF SkipWs(s, i + 1) <= Len(s) /\ s[SkipWs(s, i + 1)] = "]"
             THEN ParseOk(Arr(<<>>), SkipWs(s, i + 1) + 1)
             ELSE ParseElements(s, i + 1, <<>>)
        ELSE IF s[i] = "\"" THEN ParseString(s, i)
        ELSE IF s[i] = "-" \/ IsDigit(s[i]) THEN ParseNumber(s, i)
        ELSE IF HasAt(s, i, <<"t", "r", "u", "e">>) THEN ParseOk(Bool(TRUE), i + 4)
        ELSE IF HasAt(s, i, <<"f", "a", "l", "s", "e">>) THEN ParseOk(Bool(FALSE), i + 5)
        ELSE IF HasAt(s, i, <<"n", "u", "l", "l">>) THEN ParseOk(Null, i + 4)
        ELSE ParseFail

\* The items of an array from index i on, after the items acc.
ParseElements(s, i, acc) ==
    LET r == ParseValue(s, i)
        j == SkipWs(s, r.i)
    IN  IF ~r.ok \/ j > Len(s) THEN ParseFail
        ELSE IF s[j] = "," THEN ParseElements(s, j + 1, Append(acc, r.val))
        ELSE IF s[j] = "]" THEN ParseOk(Arr(Append(acc, r.val)), j + 1)
        ELSE ParseFail

\* The members of an object from index i0 on, after the members acc; a key
\* met again replaces its value.
ParseMembers(s, i0, acc) ==
    LET i == SkipWs(s, i0)
        key == ParseString(s, i)
        j == SkipWs(s, key.i)
        r == ParseValue(s, j + 1)
        k == SkipWs(s, r.i)
        name == Join(ValueOf(key.val))
        fields == [f \in DOMAIN acc \cup {name} |-> IF f = name THEN r.val ELSE acc[f]]
    IN  IF i > Len(s) \/ s[i] # "\"" THEN ParseFail
        ELSE IF ~key.ok \/ j > Len(s) \/ s[j] # ":" THEN ParseFail
        ELSE IF ~r.ok \/ k > Len(s) THEN ParseFail
        ELSE IF s[k] = "," THEN ParseMembers(s, k + 1, fields)
        ELSE IF s[k] = "}" THEN ParseOk(Obj(fields), k + 1)
        ELSE ParseFail

JsonParse(text) ==
    LET r == ParseValue(text, 1)
    IN  IF r.ok /\ SkipWs(text, r.i) > Len(text) THEN r ELSE ParseFail

\* trimmed.replace(/'/g, '"')
ReplaceQuotes(s) == [i \in 1..Len(s) |-> IF s[i] = "'" THEN "\"" ELSE s[i]]

\* parsedValue of buildRequest for a sender, recipient or metadata value.
ParsedValue(x) ==
    IF TypeOf(x) = "string" /\ Trim(ValueOf(x)) # <<>> /\ Trim(ValueOf(x))[1] \in {"{", "["}
    THEN LET r == JsonParse(ReplaceQuotes(Trim(ValueOf(x))))
         IN  IF r.ok THEN r.val ELSE x
    ELSE x

\* The keys buildRequest treats alike.
IdentityKeys == {"name", "email", "phone", "address"}
OtherKeys ==
    {"device", "browser", "card", "order", "payment", "session", "person",
     "personal_identifier", "locale", "custom", "page"}
FlagKeys == {"echo_query", "connectivity", "signals"}

\* if (!this.isEmptyValue(x)) the value is stored, else nothing is.
Kept(x) == IF isEmptyValue(x) THEN Undef ELSE x

\* if (typeof parsedValue === 'object' && parsedValue !== null)
\*     parsedValue = this.cleanObject(parsedValue)
CleanedIfObject(parsed) ==
    IF TypeOf(parsed) \in {"object", "array"} THEN cleanObject(parsed) ELSE parsed

\* What the loop of buildRequest stores in request[key] for the entry
\* (key, x) of data, undefined when it stores nothing there.
RootValue(key, x, hasAccountGroup) ==
    IF key \in {"action", "key"} \/ isEmptyValue(x) THEN Undef
    ELSE IF key \in {"sender", "recipient", "metadata"}
    THEN Kept(CleanedIfObject(ParsedValue(x)))
    ELSE IF key \in {"account", "billing", "shipping"}
    THEN Kept(cleanObject(normalizeGroupFields(x)))
    ELSE IF key \in IdentityKeys /\ ~hasAccountGroup THEN Undef
    ELSE IF key \in IdentityKeys \cup OtherKeys THEN Kept(normalizeField(key, x))
    ELSE Undef

\* What the loop stores in accountFields[key].
AccountValue(key, x, hasAccountGroup) ==
    IF isEmptyValue(x) \/ key \notin IdentityKeys \/ hasAccountGroup THEN Undef
    ELSE Kept(normalizeField(key, x))

\* Mutant of buildRequest: an account that is empty counts as no account.
buildRequest_FoldWhenAccountEmpty(data) ==
    LET hasAccountGroup == ~isEmptyValue(Get(data, "account"))
        root == { k \in DOMAIN ValueOf(data) : RootValue(k, ValueOf(data)[k], hasAccountGroup) # Undef }
        folded == { k \in DOMAIN ValueOf(data) : AccountValue(k, ValueOf(data)[k], hasAccountGroup) # Undef }
    IN  Obj([ action |-> IF IsTruthy(Get(data, "action")) THEN ValueOf(data).action
                         ELSE Obj([type |-> Str(<<"p", "u", "r", "c", "h", "a", "s", "e">>)]) ]
            @@ [k \in root |-> RootValue(k, ValueOf(data)[k], hasAccountGroup)]
            @@ (IF folded # {} /\ ~hasAccountGroup
                THEN [account |-> Obj([k \in folded |-> AccountValue(k, ValueOf(data)[k], hasAccountGroup)])]
                ELSE <<>>)
            @@ [k \in { f \in FlagKeys : Get(data, f) # Undef } |-> ValueOf(data)[k]])

\* buildRequest(data)
buildRequest(data) ==
    LET hasAccountGroup == Get(data, "account") # Undef
        root == { k \in DOMAIN ValueOf(data) : RootValue(k, ValueOf(data)[k], hasAccountGroup) # Undef }
        folded == { k \in DOMAIN ValueOf(data) : AccountValue(k, ValueOf(data)[k], hasAccountGroup) # Undef }
    IN  Obj([ action |-> IF IsTruthy(Get(data, "action")) THEN ValueOf(data).action
                         ELSE Obj([type |-> Str(<<"p", "u", "r", "c", "h", "a", "s", "e">>)]) ]
            @@ [k \in root |-> RootValue(k, ValueOf(data)[k], hasAccountGroup)]
            @@ (IF folded # {} /\ ~hasAccountGroup
                THEN [account |-> Obj([k \in folded |-> AccountValue(k, ValueOf(data)[k], hasAccountGroup)])]
                ELSE <<>>)
            @@ [k \in { f \in FlagKeys : Get(data, f) # Undef } |-> ValueOf(data)[k]])

----------------------------------------------------------------------------
(* RequestValidator: the findings of a request.  The fields that types.ts  *)
(* declares as strings hold strings.                                       *)

\* A ValidationResult under construction: the errors and the warnings
\* pushed so far, in the order of the pushes.
NoFindings == [errors |-> <<>>, warnings |-> <<>>]

\* errors.push({field, message, code})
AnError(field, message, code) ==
    [errors |-> <<[field |-> field, message |-> message, code |-> code]>>, warnings |-> <<>>]

\* warnings.push({field, message})
AWarning(field, message) ==
    [errors |-> <<>>, warnings |-> <<[field |-> field, message |-> message]>>]

\* warnings.push({field, message, code})
ACodedWarning(field, message, code) ==
    [errors |-> <<>>, warnings |-> <<[field |-> field, message |-> message, code |-> code]>>]

RECURSIVE AllOf(_)
\* The pushes of a sequence of steps, in order.
AllOf(steps) ==
    IF steps = <<>> THEN NoFindings
    ELSE LET rest == AllOf(Tail(steps))
         IN  [ errors |-> Head(steps).errors \o rest.errors,
               warnings |-> Head(steps).warnings \o rest.warnings ]

RECURSIVE DecimalChars(_)
\* The decimal digits of a natural number.
DecimalChars(n) ==
    IF n < 10 THEN <<DigitChars[n + 1]>>
    ELSE Append(DecimalChars(n \div 10), DigitChars[(n % 10) + 1])

\* String(x) of a string or of an integer.
StringOf(x) ==
    IF TypeOf(x) = "string" THEN ValueOf(x)
    ELSE IF ValueOf(x) < 0 THEN <<"-">> \o DecimalChars(0 - ValueOf(x))
    ELSE DecimalChars(ValueOf(x))

\* str.replace(/\D/g, '')
DigitsOnly(s) == SelectSeq(s, IsDigit)

IsLetter(c) == \E k \in 1..26 : UpperChars[k] = c \/ LowerChars[k] = c


\* /^\d*$/
AllDigits(s) == \A i \in 1..Len(s) : IsDigit(s[i])

RECURSIVE Split(_, _)
\* str.split(sep) for a separator of one character.
Split(s, sep) ==
    IF \A i \in 1..Len(s) : s[i] # sep THEN <<s>>
    ELSE LET i == CHOOSE j \in 1..Len(s) : s[j] = sep /\ \A h \in 1..(j - 1) : s[h] # sep
         IN  <<SubSeq(s, 1, i - 1)>> \o Split(SubSeq(s, i + 1, Len(s)), sep)

\* /^\d{4}-\d{2}-\d{2}$/
IsDate(s) ==
    /\ Len(s) = 10
    /\ \A i \in 1..10 : IF i \in {5, 8} THEN s[i] = "-" ELSE IsDigit(s[i])

\* /^\d{4}(-\d{2})?$/
IsYearOrMonth(s) ==
    /\ Len(s) \in {4, 7}
    /\ \A i \in 1..Len(s) : IF i = 5 THEN s[i] = "-" ELSE IsDigit(s[i])

\* /^\d{4}-\d{2}-\d{2}( \d{2}:\d{2}:\d{2})?$/
IsDateTime(s) ==
    \/ IsDate(s)
    \/ /\ Len(s) = 19
       /\ IsDate(SubSeq(s, 1, 10))
       /\ s[11] = " "
       /\ \A i \in 12..19 : IF i \in {14, 17} THEN s[i] = ":" ELSE IsDigit(s[i])

\* /^[a-zA-Z0-9'.!_%\-+]+@[a-zA-Z0-9._%\-]+\.[a-zA-Z]{2,24}$/
emailRegex(s) ==
    \E at \in 1..Len(s) : \E dot \in (at + 1)..Len(s) :
        /\ s[at] = "@"
        /\ s[dot] = "."
        /\ at > 1 /\ \A i \in 1..(at - 1) :
               IsLetter(s[i]) \/ IsDigit(s[i]) \/ s[i] \in {"'", ".", "!", "_", "%", "-", "+"}
        /\ dot > at + 1 /\ \A i \in (at + 1)..(dot - 1) :
               IsLetter(s[i]) \/ IsDigit(s[i]) \/ s[i] \in {".", "_", "%", "-"}
        /\ Len(s) - dot \in 2..24 /\ \A i \in (dot + 1)..Len(s) : IsLetter(s[i])

\* /^(\d{1,3}\.){3}\d{1,3}$/
ipv4Regex(s) ==
    /\ Len(Split(s, ".")) = 4
    /\ \A i \in 1..4 : Len(Split(s, ".")[i]) \in 1..3 /\ AllDigits(Split(s, ".")[i])

\* /^([0-9a-fA-F]{0,4}:){2,7}[0-9a-fA-F]{0,4}$/
ipv6Regex(s) ==
    /\ Len(Split(s, ":")) \in 3..8
    /\ \A i \in 1..Len(Split(s, ":")) :
           /\ Len(Split(s, ":")[i]) <= 4
           /\ \A h \in 1..Len(Split(s, ":")[i]) :
                  \/ IsDigit(Split(s, ":")[i][h])
                  \/ Split(s, ":")[i][h] \in {"a", "b", "c", "d", "e", "f", "A", "B", "C", "D", "E", "F"}

\* isValidIP(ip)
isValidIP(ip) ==
    IF ipv4Regex(ip)
    THEN \A i \in 1..4 : parseInt(Split(ip, ".")[i])[1] \in 0..255
    ELSE ipv6Regex(ip)

\* isValidCPF(cpf)
isValidCPF(cpf) ==
    /\ Len(DigitsOnly(cpf)) = 11
    /\ ~(\A i \in 1..11 : DigitsOnly(cpf)[i] = DigitsOnly(cpf)[1])

\* validateName(name, path, errors, warnings)
validateName(name, path) ==
    IF IsTruthy(Get(name, "raw"))
    THEN AllOf(<<IF \E f \in {"first_name", "last_name", "middle_name", "prefix", "suffix"} :
                     IsTruthy(Get(name, f))
              THEN AnError(path, "Cannot use raw with other name fields", 1024)
              ELSE NoFindings,
              IF Len(Trim(ValueOf(Get(name, "raw")))) < 2
              THEN AWarning(path \o ".raw", "Name appears too short")
              ELSE NoFindings >>)
    ELSE IF ~IsTruthy(Get(name, "first_name")) \/ ~IsTruthy(Get(name, "last_name"))
    THEN AnError(path, "Name must have either raw or both first_name and last_name", 2023)
    ELSE AllOf(<<IF Len(ValueOf(Get(name, "first_name"))) < 1
              THEN AWarning(path \o ".first_name", "First name should be at least 1 character")
              ELSE NoFindings,
              IF Len(ValueOf(Get(name, "last_name"))) < 2
              THEN AWarning(path \o ".last_name", "Last name should be at least 2 characters")
              ELSE NoFindings >>)

\* validateEmail(email, path, errors, warnings)
validateEmail(email, path) ==
    IF ~IsTruthy(Get(email, "address"))
    THEN AnError(path, "Email address is required", 2023)
    ELSE AllOf(<<IF ~emailRegex(ValueOf(Get(email, "address")))
              THEN AnError(path \o ".address", "Invalid email format", 1015)
              ELSE NoFindings,
              IF ToLowerCase(ValueOf(Get(email, "address"))) \in
                   { <<"t", "e", "s", "t", "@", "t", "e", "s", "t", ".", "c", "o", "m">>,
                     <<"e", "x", "a", "m", "p", "l", "e", "@", "e", "x", "a", "m", "p", "l", "e", ".", "c", "o", "m">>,
                     <<"u", "s", "e", "r", "@", "e", "x", "a", "m", "p", "l", "e", ".", "c", "o", "m">> }
              THEN AWarning(path \o ".address", "Test email address detected")
              ELSE NoFindings >>)

\* validatePhone(phone, path, errors, warnings)
validatePhone(phone, path) ==
    IF IsTruthy(Get(phone, "raw"))
    THEN AllOf(<<IF \E f \in {"country_code", "number", "extension"} : IsTruthy(Get(phone, f))
              THEN AnError(path, "Cannot use raw with other phone fields", 1024)
              ELSE NoFindings,
              IF Len(DigitsOnly(ValueOf(Get(phone, "raw")))) < 7
              THEN AWarning(path \o ".raw", "Phone number appears too short")
              ELSE NoFindings >>)
    ELSE IF ~IsTruthy(Get(phone, "country_code")) \/ ~IsTruthy(Get(phone, "number"))
    THEN AnError(path, "Phone must have either raw or both country_code and number", 1015)
    ELSE AllOf(<<IF Len(StringOf(Get(phone, "country_code"))) > 3
                 \/ Len(StringOf(Get(phone, "country_code"))) < 1
              THEN AWarning(path \o ".country_code", "Country code should be 1-3 digits")
              ELSE NoFindings,
              IF Len(StringOf(Get(phone, "number"))) < 7
                 \/ Len(StringOf(Get(phone, "number"))) > 15
              THEN AWarning(path \o ".number", "Phone number should be 7-15 digits")
              ELSE NoFindings >>)

\* validateAddress(address, path, errors, warnings)
validateAddress(address, path) ==
    IF IsTruthy(Get(address, "raw"))
    THEN IF \E f \in {"country", "state", "city", "street", "house", "po_box", "zip_code"} :
                IsTruthy(Get(address, f))
         THEN AnError(path, "Cannot use raw with other address fields", 1024)
         ELSE NoFindings
    ELSE AllOf(<<
        IF ~(\E f \in {"country", "state", "zip_code", "city"} : IsTruthy(Get(address, f)))
        THEN AnError(path, "Address must have at least one of: raw, country, state, zip_code, or city", 1017)
        ELSE NoFindings,
        IF IsTruthy(Get(address, "country")) /\ Len(ValueOf(Get(address, "country"))) # 2
        THEN ACodedWarning(path \o ".country", "Country should be a 2-letter ISO code", 2013)
        ELSE NoFindings,
        IF /\ IsTruthy(Get(address, "state"))
           /\ Get(address, "country") = Str(<<"U", "S">>)
           /\ Len(ValueOf(Get(address, "state"))) # 2
        THEN ACodedWarning(path \o ".state", "US state should be a 2-letter code", 2005)
        ELSE NoFindings,
        IF IsTruthy(Get(address, "state")) /\ ~IsTruthy(Get(address, "country"))
        THEN ACodedWarning(path \o ".state", "State provided without country", 2014)
        ELSE NoFindings,
        IF /\ IsTruthy(Get(address, "city"))
           /\ ~IsTruthy(Get(address, "state"))
           /\ ~IsTruthy(Get(address, "country"))
        THEN ACodedWarning(path \o ".city", "City provided without state or country", 2016)
        ELSE NoFindings >>)

\* validateDevice(device, path, errors, warnings)
validateDevice(device, path) ==
    AllOf(<<
        IF IsTruthy(Get(device, "ip")) /\ ~isValidIP(ValueOf(Get(device, "ip")))
        THEN AnError(path \o ".ip", "Invalid IP address format", 1015)
        ELSE NoFindings,
        IF IsTruthy(Get(device, "true_ip")) /\ ~isValidIP(ValueOf(Get(device, "true_ip")))
        THEN AnError(path \o ".true_ip", "Invalid true_ip address format", 1015)
        ELSE NoFindings,
        IF /\ TypeOf(Get(device, "battery_level")) = "number"
           /\ (ValueOf(Get(device, "battery_level")) < 0 \/ ValueOf(Get(device, "battery_level")) > 100)
        THEN AWarning(path \o ".battery_level", "Battery level should be between 0 and 100")
        ELSE NoFindings,
        IF IsTruthy(Get(device, "is_emulator")) \/ IsTruthy(Get(device, "is_virtual_env"))
        THEN AWarning(path, "Virtual environment or emulator detected")
        ELSE NoFindings,
        IF IsTruthy(Get(device, "is_rooted"))
        THEN AWarning(path, "Rooted/jailbroken device detected")
        ELSE NoFindings >>)

\* validatePerson(person, path, errors, warnings)
validatePerson(person, path) ==
    AllOf(<<IF /\ IsTruthy(Get(person, "dob"))
            /\ ~IsDate(ValueOf(Get(person, "dob")))
            /\ ~IsYearOrMonth(ValueOf(Get(person, "dob")))
            /\ ~(ValueOf(Get(person, "dob")) # <<>> /\ AllDigits(ValueOf(Get(person, "dob"))))
         THEN AWarning(path \o ".dob", "Date of birth should be in YYYY-MM-DD, YYYY-MM, YYYY, or age format")
         ELSE NoFindings,
         IF IsTruthy(Get(person, "gender")) /\ Get(person, "gender") \notin {Str(<<"M">>), Str(<<"F">>)}
         THEN AnError(path \o ".gender", "Gender must be M or F", 1015)
         ELSE NoFindings >>)

\* validatePersonalIdentifier(identifier, path, errors, warnings)
validatePersonalIdentifier(identifier, path) ==
    AllOf(<<
        IF ~IsTruthy(Get(identifier, "type"))
        THEN AnError(path \o ".type", "Identifier type is required", 2023)
        ELSE NoFindings,
        IF ~IsTruthy(Get(identifier, "value"))
        THEN AnError(path \o ".value", "Identifier value is required", 2023)
        ELSE NoFindings,
        IF /\ Get(identifier, "type") = Str(<<"C", "P", "F">>)
           /\ IsTruthy(Get(identifier, "value"))
           /\ ~isValidCPF(ValueOf(Get(identifier, "value")))
        THEN AWarning(path \o ".value", "CPF format appears invalid")
        ELSE NoFindings,
        IF IsTruthy(Get(identifier, "issue_date")) /\ ~IsDate(ValueOf(Get(identifier, "issue_date")))
        THEN AWarning(path \o ".issue_date", "Issue date should be in YYYY-MM-DD format")
        ELSE NoFindings,
        IF IsTruthy(Get(identifier, "expiry_date")) /\ ~IsDate(ValueOf(Get(identifier, "expiry_date")))
        THEN AWarning(path \o ".expiry_date", "Expiry date should be in YYYY-MM-DD format")
        ELSE NoFindings >>)

\* validateBillingShippingGroup(group, groupName, errors, warnings)
validateBillingShippingGroup(group, groupName) ==
    AllOf(<<
        IF IsTruthy(Get(group, "name")) THEN validateName(Get(group, "name"), groupName \o ".name")
        ELSE NoFindings,
        IF IsTruthy(Get(group, "email")) THEN validateEmail(Get(group, "email"), groupName \o ".email")
        ELSE NoFindings,
        IF IsTruthy(Get(group, "phone")) THEN validatePhone(Get(group, "phone"), groupName \o ".phone")
        ELSE NoFindings,
        IF IsTruthy(Get(group, "address"))
        THEN validateAddress(Get(group, "address"), groupName \o ".address")
        ELSE NoFindings >>)

\* validateAccountGroup(account, errors, warnings): the four checks it
\* shares with validateBillingShippingGroup, then its own.
validateAccountGroup(account) ==
    AllOf(<<
        validateBillingShippingGroup(account, "account"),
        IF IsTruthy(Get(account, "person"))
        THEN validatePerson(Get(account, "person"), "account.person")
        ELSE NoFindings,
        IF IsTruthy(Get(account, "personal_identifier"))
        THEN validatePersonalIdentifier(Get(account, "personal_identifier"), "account.personal_identifier")
        ELSE NoFindings,
        IF IsTruthy(Get(account, "created")) /\ ~IsDateTime(ValueOf(Get(account, "created")))
        THEN AWarning("account.created", "Created date should be in YYYY-MM-DD HH:MM:SS format")
        ELSE NoFindings,
        IF IsTruthy(Get(account, "ip_created")) /\ ~isValidIP(ValueOf(Get(account, "ip_created")))
        THEN AWarning("account.ip_created", "Invalid IP address format")
        ELSE NoFindings,
        IF IsTruthy(Get(account, "ip_last")) /\ ~isValidIP(ValueOf(Get(account, "ip_last")))
        THEN AWarning("account.ip_last", "Invalid IP address format")
        ELSE NoFindings,
        IF IsTruthy(Get(account, "ip_history"))
        THEN AllOf([i \in 1..Len(ValueOf(Get(account, "ip_history"))) |->
                 IF ~isValidIP(ValueOf(ValueOf(Get(account, "ip_history"))[i]))
                 THEN AWarning("account.ip_history[" \o ToString(i - 1) \o "]", "Invalid IP address format")
                 ELSE NoFindings])
        ELSE NoFindings >>)

\* return {valid: errors.length === 0, errors, warnings}
Verdict(findings) ==
    [ valid |-> findings.errors = <<>>,
      errors |-> findings.errors,
      warnings |-> findings.warnings,
      ran |-> TRUE ]

\* RequestValidator.validateRequest(request); dataFields lists the fields
\* that DataFields lists.
ValidatorResult(request) ==
    Verdict(AllOf(<<
        IF ~IsTruthy(Get(request, "action"))
        THEN AnError("action", "Action object is required", 2030)
        ELSE IF ~IsTruthy(Get(Get(request, "action"), "type"))
        THEN AnError("action.type", "Action type is required", 2031)
        ELSE NoFindings,
        IF ~(\E f \in DataFields : Get(request, f) # Undef)
        THEN AnError("data", "At least one data field is required", 2023)
        ELSE NoFindings,
        IF IsTruthy(Get(request, "name")) THEN validateName(Get(request, "name"), "name")
        ELSE NoFindings,
        IF IsTruthy(Get(request, "email")) THEN validateEmail(Get(request, "email"), "email")
        ELSE NoFindings,
        IF IsTruthy(Get(request, "phone")) THEN validatePhone(Get(request, "phone"), "phone")
        ELSE NoFindings,
        IF IsTruthy(Get(request, "address")) THEN validateAddress(Get(request, "address"), "address")
        ELSE NoFindings,
        IF IsTruthy(Get(request, "device")) THEN validateDevice(Get(request, "device"), "device")
        ELSE NoFindings,
        IF IsTruthy(Get(request, "person")) THEN validatePerson(Get(request, "person"), "person")
        ELSE NoFindings,
        IF IsTruthy(Get(request, "personal_identifier"))
        THEN validatePersonalIdentifier(Get(request, "personal_identifier"), "personal_identifier")
        ELSE NoFindings,
        IF IsTruthy(Get(request, "account")) THEN validateAccountGroup(Get(request, "account"))
        ELSE NoFindings,
        IF IsTruthy(Get(request, "billing"))
        THEN validateBillingShippingGroup(Get(request, "billing"), "billing")
        ELSE NoFindings,
        IF IsTruthy(Get(request, "shipping"))
        THEN validateBillingShippingGroup(Get(request, "shipping"), "shipping")
        ELSE NoFindings >>))

----------------------------------------------------------------------------
(* What the network can answer to one fetch.                               *)

\* response.headers.get("Retry-After"): null (Undefined) or the header text.
RetryAfterValues ==
    { Undefined, Some(<<>>), Some(<<"0">>), Some(<<"2">>), Some(<<"W", "e", "d">>) }

\* A response body: text that is not JSON, the JSON value null, or a JSON
\* object.
InvalidJson == [parse |-> "error"]
JsonNull == [parse |-> "null"]
JsonObject(data) == [parse |-> "object", data |-> data]

Bodies ==
    { InvalidJson, JsonNull,
      JsonObject([score |-> 700]),
      JsonObject([message |-> "Service unavailable", code |-> 1008]),
      JsonObject([error |-> [message |-> "Invalid API key", code |-> 1014]]) }

Statuses == {200, 404, 503}

Responses ==
    [status : {429}, retryAfter : RetryAfterValues, body : {InvalidJson}]
        \cup [status : Statuses, retryAfter : {Undefined}, body : Bodies]

\* Errors with which fetch rejects, other than the abort.
Faults == { OtherError("FetchError", "connect ECONNREFUSED") }

\* response.ok
Ok(status) == status >= 200 /\ status <= 299

\* The class of a response, as the outcome of its fetch.
StatusClass(status) ==
    IF status = 429 THEN "429"
    ELSE IF status >= 500 THEN "5xx"
    ELSE IF Ok(status) THEN "2xx"
    ELSE "4xx"

----------------------------------------------------------------------------
(* Calls.                                                                  *)

NoResult == [none |-> TRUE]

\* A call at the moment scoreTransaction or sendFeedback is entered.
NewCall(op) ==
    [ op |-> op,            \* "score" or "feedback"
      pc |-> "new",         \* "rateLimit", "fetch", "sleep", "done", "failed"
      now |-> now,          \* const now = Date.now() of applyRateLimit
      wakeAt |-> NoTime,    \* deadline of the timer of sleep(ms)
      abortAt |-> NoTime,   \* deadline of the armed abort timer
      admitAt |-> NoTime,   \* the time applyRateLimit returned
      endAt |-> NoTime,     \* the time the call returned or threw
      attempt |-> 0,        \* the attempt parameter of makeRequest
      fetches |-> 0,        \* calls of fetch made
      delays |-> <<>>,      \* the delays passed to sleep by makeRequest
      outcomes |-> <<>>,    \* how each fetch ended, by class
      result |-> NoResult,  \* the value returned
      err |-> NoError ]     \* the error thrown

\* The HTTP method makeRequest is given by the operation.
Method(op) == IF op = "score" THEN "POST" ELSE "PUT"

\* The call throws e.
Fail(c, e) == [c EXCEPT !.pc = "failed", !.err = e, !.endAt = now]

\* Mutant of StartAttempt: fetch is called with no abort timer armed.
StartAttempt_NoTimer(c, attempt) ==
    [c EXCEPT !.pc = "fetch", !.attempt = attempt, !.fetches = @ + 1]

\* makeRequest(url, method, body, attempt): arm the abort timer and fetch.
StartAttempt(c, attempt) ==
    [c EXCEPT !.pc = "fetch", !.attempt = attempt, !.fetches = @ + 1,
              !.abortAt = now + TimerDelay(Num(timeout))]

\* await this.sleep(ms) inside makeRequest.
Backoff(c, ms) ==
    [c EXCEPT !.pc = "sleep", !.wakeAt = now + TimerDelay(ms),
              !.delays = Append(@, ms)]

\* Mutant of RetryAfterDelay: the header is taken as milliseconds.
RetryAfterDelay_NoScale(retryAfter, attempt) ==
    IF retryAfter # Undefined /\ retryAfter[1] # <<>>
    THEN parseInt(retryAfter[1])
    ELSE Num(retryDelay * attempt)

\* The delay after a 429: Retry-After in seconds when the header text is
\* truthy, else retryDelay * attempt.
RetryAfterDelay(retryAfter, attempt) ==
    IF retryAfter # Undefined /\ retryAfter[1] # <<>>
    THEN Times(parseInt(retryAfter[1]), 1000)
    ELSE Num(retryDelay * attempt)

\* Mutant of CatchOther: one retry too many.
CatchOther_OffByOne(c, e) ==
    IF c.attempt <= maxRetries + 1
    THEN Backoff(c, Num(retryDelay * c.attempt))
    ELSE Fail(c, TrustAPIError(IF e.message # "" THEN e.message ELSE "Network error",
                               Undefined, Undefined))

\* Mutant of CatchOther: the exhausted call reports a status.
CatchOther_WithStatus(c, e) ==
    IF c.attempt <= maxRetries
    THEN Backoff(c, Num(retryDelay * c.attempt))
    ELSE Fail(c, TrustAPIError(IF e.message # "" THEN e.message ELSE "Network error",
                               Undefined, Some(503)))

\* Mutant of CatchOther: the delay does not grow with the attempt.
CatchOther_ConstantDelay(c, e) ==
    IF c.attempt <= maxRetries
    THEN Backoff(c, Num(retryDelay))
    ELSE Fail(c, TrustAPIError(IF e.message # "" THEN e.message ELSE "Network error",
                               Undefined, Undefined))

\* The catch block for an error that is neither the abort nor a
\* TrustAPIError.
CatchOther(c, e) ==
    IF c.attempt <= maxRetries
    THEN Backoff(c, Num(retryDelay * c.attempt))
    ELSE Fail(c, TrustAPIError(IF e.message # "" THEN e.message ELSE "Network error",
                               Undefined, Undefined))

\* Mutant of AfterRequest: the error field of the body is not looked at.
AfterRequest_IgnoreError(c, body) ==
    IF body = JsonNull
    THEN Fail(c, OtherError("TypeError", "Cannot read properties of null (reading 'error')"))
    ELSE [c EXCEPT !.pc = "done", !.result = body.data, !.endAt = now]

\* The statements of scoreTransaction / sendFeedback after makeRequest
\* returned body.
AfterRequest(c, body) ==
    IF body = JsonNull
    THEN Fail(c, OtherError("TypeError", "Cannot read properties of null (reading 'error')"))
    ELSE IF "error" \in DOMAIN body.data
    THEN Fail(c, TrustAPIError(body.data.error.message, Some(body.data.error.code), Undefined))
    ELSE [c EXCEPT !.pc = "done", !.result = body.data, !.endAt = now]

\* Mutant of OnResponse: response.ok is not tested, so the body of a
\* response that is not 2xx is returned.
OnResponse_SkipOkTest(c0, r) ==
    LET c == [c0 EXCEPT !.abortAt = NoTime,
                        !.outcomes = Append(@, StatusClass(r.status))]
    IN  IF r.status = 429
        THEN IF c.attempt <= maxRetries
             THEN Backoff(c, RetryAfterDelay(r.retryAfter, c.attempt))
             ELSE Fail(c, TrustAPIError("Rate limit exceeded", Some(1001), Some(429)))
        ELSE IF r.status >= 500 /\ c.attempt <= maxRetries
        THEN Backoff(c, Num(retryDelay * c.attempt))
        ELSE IF r.body = InvalidJson
        THEN CatchOther(c, OtherError("FetchError", "invalid json response body"))
        ELSE AfterRequest(c, r.body)

\* The try block of makeRequest once fetch resolved with response r.
OnResponse(c0, r) ==
    LET c == [c0 EXCEPT !.abortAt = NoTime,
                        !.outcomes = Append(@, StatusClass(r.status))]
    IN  IF r.status = 429
        THEN IF c.attempt <= maxRetries
             THEN Backoff(c, RetryAfterDelay(r.retryAfter, c.attempt))
             ELSE Fail(c, TrustAPIError("Rate limit exceeded", Some(1001), Some(429)))
        ELSE IF r.status >= 500 /\ c.attempt <= maxRetries
        THEN Backoff(c, Num(retryDelay * c.attempt))
        ELSE IF r.body = InvalidJson
        THEN CatchOther(c, OtherError("FetchError", "invalid json response body"))
        ELSE IF ~Ok(r.status)
        THEN IF r.body = JsonNull
             THEN CatchOther(c, OtherError("TypeError", "Cannot read properties of null (reading 'message')"))
             ELSE Fail(c, TrustAPIError(
                        IF Truthy(r.body.data, "message") THEN r.body.data.message
                        ELSE "HTTP " \o ToString(r.status),
                        IF "code" \in DOMAIN r.body.data THEN Some(r.body.data.code)
                        ELSE Undefined,
                        Some(r.status)))
        ELSE AfterRequest(c, r.body)

\* Mutant of OnReject: the abort is handled like any other fault.
OnReject_TimeoutAsFault(c0, e) ==
    CatchOther([c0 EXCEPT !.abortAt = NoTime,
                          !.outcomes = Append(@, IF e.name = "AbortError" THEN "abort" ELSE "fault")],
               e)

\* Mutant of OnReject: a timeout is retried while attempts remain.
OnReject_RetryTimeout(c0, e) ==
    LET c == [c0 EXCEPT !.abortAt = NoTime,
                        !.outcomes = Append(@, IF e.name = "AbortError" THEN "abort" ELSE "fault")]
    IN  IF e.name = "AbortError" /\ c.attempt > maxRetries
        THEN Fail(c, TrustAPIError("Request timeout", Undefined, Some(408)))
        ELSE CatchOther(c, e)

\* The catch block of makeRequest when fetch rejected with error e.
OnReject(c0, e) ==
    LET c == [c0 EXCEPT !.abortAt = NoTime,
                        !.outcomes = Append(@, IF e.name = "AbortError" THEN "abort" ELSE "fault")]
    IN  IF e.name = "AbortError"
        THEN Fail(c, TrustAPIError("Request timeout", Undefined, Some(408)))
        ELSE CatchOther(c, e)

\* this.rateLimiter.requests.filter(timestamp => timestamp > oneSecondAgo)
Prune(reqs, oneSecondAgo) == SelectSeq(reqs, LAMBDA t : t > oneSecondAgo)

\* Mutant of WaitTime: the 10ms buffer is left out.
WaitTime_NoBuffer(reqs) == WindowMs - (now - reqs[1])

\* The window is at the limit: applyRateLimit sleeps for this long (the
\* window is not empty here unless rateLimitQPS is 0).
WaitTime(reqs) == WindowMs - (now - reqs[1]) + BufferMs

\* applyRateLimit up to its await, then, when it does not sleep, the push
\* and the first attempt of makeRequest.
EnterRateLimit(c) ==
    LET pruned == Prune(requests, now - WindowMs)
        sleeps == /\ Len(pruned) >= rateLimitQPS
                  /\ pruned # <<>>
                  /\ WaitTime(pruned) > 0
    IN  IF sleeps
        THEN /\ requests' = pruned
             /\ calls' = Append(calls, [c EXCEPT !.pc = "rateLimit",
                                   !.wakeAt = now + TimerDelay(Num(WaitTime(pruned)))])
        ELSE /\ requests' = Append(pruned, now)
             /\ calls' = Append(calls, StartAttempt([c EXCEPT !.admitAt = now], 1))

----------------------------------------------------------------------------
(* Actions.                                                                *)

\* What scoreTransaction(request) does to the client, up to its first
\* suspension.
scoreTransaction(request) ==
    /\ toIssue > 0
    /\ toIssue' = toIssue - 1
    /\ LET fullRequest ==
               IF "action" \in DOMAIN request THEN request
               ELSE request @@ [action |-> [type |-> "purchase"]]
           e == validateRequest(fullRequest)
       IN  IF e # Undefined
           THEN /\ calls' = Append(calls, Fail(NewCall("score"), e[1]))
                /\ UNCHANGED requests
           ELSE EnterRateLimit(NewCall("score"))

\* A caller invokes scoreTransaction(request) on the client.
ScoreTransaction(request) ==
    /\ scoreTransaction(request)
    /\ UNCHANGED <<now, config, canon>>

\* Mutant of SendFeedback: the upper bound on the item count is not checked.
SendFeedback_NoUpperBound(n) ==
    /\ toIssue > 0
    /\ toIssue' = toIssue - 1
    /\ IF n = 0
       THEN /\ calls' = Append(calls, Fail(NewCall("feedback"),
                    TrustAPIError("At least one feedback item is required", Undefined, Undefined)))
            /\ UNCHANGED requests
       ELSE EnterRateLimit(NewCall("feedback"))
    /\ UNCHANGED <<now, config, canon>>

\* sendFeedback(request) with n feedback items, up to its first suspension.
SendFeedback(n) ==
    /\ toIssue > 0
    /\ toIssue' = toIssue - 1
    /\ IF n = 0
       THEN /\ calls' = Append(calls, Fail(NewCall("feedback"),
                    TrustAPIError("At least one feedback item is required", Undefined, Undefined)))
            /\ UNCHANGED requests
       ELSE IF n > MaxFeedbacks
       THEN /\ calls' = Append(calls, Fail(NewCall("feedback"),
                    TrustAPIError("Maximum 1000 feedback items allowed per request", Some(1023), Undefined)))
            /\ UNCHANGED requests
       ELSE EnterRateLimit(NewCall("feedback"))
    /\ UNCHANGED <<now, config, canon>>

\* The timer of applyRateLimit's sleep fires for call i: push the call's
\* now, return, and start the first attempt of makeRequest.
RateLimitWake(i) ==
    /\ calls[i].pc = "rateLimit"
    /\ now >= calls[i].wakeAt
    /\ requests' = Append(requests, calls[i].now)
    /\ calls' = [calls EXCEPT ![i] =
                    StartAttempt([@ EXCEPT !.admitAt = now, !.wakeAt = NoTime], 1)]
    /\ UNCHANGED <<now, toIssue, config, canon>>

\* fetch of call i resolves with response r, before the abort timer is due.
Respond(i, r) ==
    /\ calls[i].pc = "fetch"
    /\ now < calls[i].abortAt
    /\ calls' = [calls EXCEPT ![i] = OnResponse(@, r)]
    /\ UNCHANGED <<now, requests, toIssue, config, canon>>

\* fetch of call i rejects with a network fault, before the abort timer is
\* due.
NetworkFault(i, e) ==
    /\ calls[i].pc = "fetch"
    /\ now < calls[i].abortAt
    /\ calls' = [calls EXCEPT ![i] = OnReject(@, e)]
    /\ UNCHANGED <<now, requests, toIssue, config, canon>>

\* Mutant of AbortTimeout: the calls share one AbortController, so the
\* timer of call i aborts every fetch in flight.
AbortTimeout_SharedController(i) ==
    /\ calls[i].pc = "fetch"
    /\ calls[i].abortAt # NoTime
    /\ now >= calls[i].abortAt
    /\ calls' = [j \in DOMAIN calls |->
                    IF calls[j].pc = "fetch"
                    THEN OnReject(calls[j], OtherError("AbortError", "The user aborted a request."))
                    ELSE calls[j]]
    /\ UNCHANGED <<now, requests, toIssue, config, canon>>

\* The abort timer of call i fires: controller.abort() rejects fetch with
\* an AbortError.
AbortTimeout(i) ==
    /\ calls[i].pc = "fetch"
    /\ calls[i].abortAt # NoTime
    /\ now >= calls[i].abortAt
    /\ calls' = [calls EXCEPT ![i] = OnReject(@, OtherError("AbortError", "The user aborted a request."))]
    /\ UNCHANGED <<now, requests, toIssue, config, canon>>

\* Mutant of BackoffWake: the retried attempt passes through the rate
\* limiter and adds an entry to the window.
BackoffWake_Gated(i) ==
    /\ calls[i].pc = "sleep"
    /\ now >= calls[i].wakeAt
    /\ requests' = Append(Prune(requests, now - WindowMs), now)
    /\ calls' = [calls EXCEPT ![i] = StartAttempt([@ EXCEPT !.wakeAt = NoTime], @.attempt + 1)]
    /\ UNCHANGED <<now, toIssue, config, canon>>

\* The timer of a backoff sleep fires for call i: makeRequest(attempt + 1).
BackoffWake(i) ==
    /\ calls[i].pc = "sleep"
    /\ now >= calls[i].wakeAt
    /\ calls' = [calls EXCEPT ![i] = StartAttempt([@ EXCEPT !.wakeAt = NoTime], @.attempt + 1)]
    /\ UNCHANGED <<now, requests, toIssue, config, canon>>

\* The deadlines of the armed timers.
Deadlines ==
    { calls[i].wakeAt : i \in { j \in DOMAIN calls : calls[j].pc \in {"rateLimit", "sleep"} } }
        \cup { calls[i].abortAt : i \in { j \in DOMAIN calls : calls[j].pc = "fetch" } }

\* Time passes: up to the next deadline of an armed timer or, while the
\* callers have calls to issue, by TickStep.  A timer that is due fires
\* before the clock moves on.  The clock reads 0 at the first call: the
\* window is empty until then.
Tick ==
    /\ calls # <<>>
    /\ \E t \in Deadlines \cup { now + TickStep : x \in { y \in {toIssue} : y > 0 } } :
          /\ t > now
          /\ t \in Deadlines \/ t <= MaxArrival
          /\ \A d \in Deadlines : t <= d
          /\ now' = t
    /\ UNCHANGED <<requests, calls, toIssue, config, canon>>

\* Spec: one call, from its invocation to its outcome, against every
\* answer of the network.  The call finds the window empty, so the timer of
\* applyRateLimit is never armed.
Init ==
    /\ now = 0
    /\ requests = <<>>
    /\ calls = <<>>
    /\ toIssue = 1
    /\ maxRetries = CfgMaxRetries
    /\ retryDelay = CfgRetryDelay
    /\ timeout = CfgTimeout
    /\ rateLimitQPS = CfgRateLimitQPS
    /\ CanonIdle

Next ==
    \/ \E request \in ScoreRequests : ScoreTransaction(request)
    \/ \E n \in FeedbackCounts : SendFeedback(n)
    \/ \E i \in DOMAIN calls, r \in Responses : Respond(i, r)
    \/ \E i \in DOMAIN calls, e \in Faults : NetworkFault(i, e)
    \/ \E i \in DOMAIN calls : AbortTimeout(i)
    \/ \E i \in DOMAIN calls : BackoffWake(i)
    \/ Tick

Spec == Init /\ [][Next]_vars

\* SpecBurst: a client built with the default configuration, and one call
\* more than its ceiling; the network does not answer while they wait.
ValidRequest == [email |-> [address |-> "jo@example.com"]]

InitBurst ==
    /\ now = 0
    /\ requests = <<>>
    /\ calls = <<>>
    /\ toIssue = DefaultRateLimitQPS + 1
    /\ maxRetries = DefaultMaxRetries
    /\ retryDelay = DefaultRetryDelay
    /\ timeout = DefaultTimeout
    /\ rateLimitQPS = DefaultRateLimitQPS
    /\ CanonIdle

NextBurst ==
    \/ ScoreTransaction(ValidRequest)
    \/ \E i \in DOMAIN calls : RateLimitWake(i)
    \/ Tick

SpecBurst == InitBurst /\ [][NextBurst]_vars

\* SpecRate: concurrent calls on a client with a small ceiling; the
\* network does not answer while they wait.
InitRate ==
    /\ now = 0
    /\ requests = <<>>
    /\ calls = <<>>
    /\ toIssue = MaxCalls
    /\ maxRetries = DefaultMaxRetries
    /\ retryDelay = DefaultRetryDelay
    /\ timeout = DefaultTimeout
    /\ rateLimitQPS = CfgRateLimitQPS
    /\ CanonIdle

NextRate ==
    \/ ScoreTransaction(ValidRequest)
    \/ SendFeedback(1)
    \/ \E i \in DOMAIN calls : RateLimitWake(i)
    \/ Tick

SpecRate == InitRate /\ [][NextRate]_vars

\* config.maxRetries of the client of SpecConc: one retry.
ConcMaxRetries == 1

\* SpecConc: concurrent calls on a client with a small ceiling, each from
\* its invocation to its outcome; the network answers, fails or stays
\* silent until the abort timer fires.  With the default retry delay a call
\* that retries is still running when the next call is admitted.
ConcResponses ==
    { r \in Responses : r.retryAfter = Undefined /\ r.status \in {200, 503}
                           /\ r.body = JsonObject([score |-> 700]) }

InitConc ==
    /\ now = 0
    /\ requests = <<>>
    /\ calls = <<>>
    /\ toIssue = ConcCalls
    /\ maxRetries = ConcMaxRetries
    /\ retryDelay = DefaultRetryDelay
    /\ timeout = CfgTimeout
    /\ rateLimitQPS = CfgRateLimitQPS
    /\ CanonIdle

NextConc ==
    \/ now <= ConcArrival /\ ScoreTransaction(ValidRequest)
    \/ now <= ConcArrival /\ \E n \in {0, 1} : SendFeedback(n)
    \/ \E i \in DOMAIN calls : RateLimitWake(i)
    \/ \E i \in DOMAIN calls, r \in ConcResponses : Respond(i, r)
    \/ \E i \in DOMAIN calls, e \in Faults : NetworkFault(i, e)
    \/ \E i \in DOMAIN calls : AbortTimeout(i)
    \/ \E i \in DOMAIN calls : BackoffWake(i)
    \/ Tick

SpecConc == InitConc /\ [][NextConc]_vars

\* SpecLive: SpecConc on an event loop that keeps running: the clock moves
\* on, and a timer that is due fires.
SpecLive ==
    /\ SpecConc
    /\ WF_vars(Tick)
    /\ WF_vars(\E i \in DOMAIN calls : RateLimitWake(i))
    /\ WF_vars(\E i \in DOMAIN calls : AbortTimeout(i))
    /\ WF_vars(\E i \in DOMAIN calls : BackoffWake(i))

----------------------------------------------------------------------------
(* SpecClean: cleanObject applied to a JSON-like value, and applied again  *)
(* to what it returned.                                                    *)

ClientIdle ==
    /\ now = 0
    /\ requests = <<>>
    /\ calls = <<>>
    /\ toIssue = 0
    /\ maxRetries = DefaultMaxRetries
    /\ retryDelay = DefaultRetryDelay
    /\ timeout = DefaultTimeout
    /\ rateLimitQPS = DefaultRateLimitQPS

ObjectKeys == {"a", "b"}

\* The arrays of at most MaxItems items of S, the objects that give some
\* of the keys a value of S.
Arrays(S) == { Arr(items) : items \in UNION { [1..k -> S] : k \in 0..MaxItems } }
Objects(S) == { Obj(fields) : fields \in UNION { [D -> S] : D \in SUBSET ObjectKeys } }

\* null, a string isEmptyValue takes for empty, a string it keeps.
Atoms == { Null, Str(<<" ", "N", "/", "A">>), Str(<<"x">>) }

\* Further values, met alone or as the only member of a container.
MoreAtoms ==
    { Undef, Str(<<>>), Str(<<" ">>), Str(<<"n", "a">>), Str(<<"N", "U", "L", "L">>),
      Str(<<"N", "o", "n", "e", " ">>), Str(<<"n", "a", "n">>), Str(<<"n", " ", "a">>),
      Number(0), Bool(FALSE) }

\* Values nested up to two containers deep over Atoms.
JsonValues ==
    LET flat == Atoms \cup Arrays(Atoms) \cup Objects(Atoms)
    IN  flat \cup Arrays(flat) \cup Objects(flat)
            \cup MoreAtoms
            \cup { Arr(<<x>>) : x \in MoreAtoms }
            \cup { Obj([k \in {"a"} |-> x]) : x \in MoreAtoms }

\* cleanObject is called on the value, then on what the last call returned.
Sanitize ==
    /\ Len(cleaned) < 2
    /\ cleaned' = Append(cleaned, cleanObject(IF cleaned = <<>> THEN value
                                              ELSE cleaned[Len(cleaned)]))
    /\ UNCHANGED <<now, requests, calls, toIssue, config, input, built, validation, value>>

InitClean ==
    /\ ClientIdle
    /\ input = Undef
    /\ built = Undef
    /\ validation = NoValidation
    /\ value \in JsonValues
    /\ cleaned = <<>>

NextClean == Sanitize

SpecClean == InitClean /\ [][NextClean]_vars

----------------------------------------------------------------------------
(* SpecBuild: buildRequest applied to an input of the score tool, then     *)
(* RequestValidator.validateRequest applied to the request it returns.      *)

JoDoe == Str(<<"J", "o", " ", "D", "o", "e">>)

\* The value an input gives each key, Undef for a key it does not have.
BuildPicks ==
    [ account : { Undef, Null, Obj(<<>>),
                  Obj([name |-> Str(<<"A", "l">>), email |-> Str(<<"N", "/", "A">>)]),
                  Obj([tags |-> Arr(<<Null>>)]) },
      name : { Undef, JoDoe, Str(<<"N", "/", "A">>), Obj([raw |-> JoDoe]),
               Obj([raw |-> Str(<<>>), first_name |-> Str(<<"J", "o">>)]) },
      email : { Undef, Str(<<"a", "@", "b", ".", "c", "o">>) },
      device : { Undef, Str(<<"1", ".", "2", ".", "3", ".", "4">>),
                 Obj([ip |-> Str(<<>>)]) },
      metadata : { Undef,
                   Str(<<"{", "'", "a", "'", ":", "'", "n", "/", "a", "'", "}">>),
                   Str(<<"{", "'", "a", "'", ":", "[", "1", "]", "}">>),
                   Str(<<"{", "n", "o", "t", " ", "j", "s", "o", "n">>) },
      action : { Undef, Obj([type |-> Str(<<"s", "i", "g", "n", "u", "p">>)]) },
      signals : { Undef, Bool(FALSE) } ]

\* The object that has the keys to which pick gives a value.
Chosen(pick) == Obj([k \in { c \in DOMAIN pick : pick[c] # Undef } |-> pick[k]])

\* Inputs with name, phone and address objects.
ValidatePicks ==
    [ account : { Undef, Obj(<<>>) },
      phone : { Undef, Str(<<"5", "5", "5", "-", "1", "2", "3", "4">>),
                Obj([raw |-> Str(<<"5", "5", "5", "-", "1", "2", "3", "4">>),
                     number |-> Str(<<"5", "5", "5", "1", "2", "3", "4">>)]),
                Obj([raw |-> Str(<<"5", "5", "5">>),
                     number |-> Str(<<"5", "5", "5", "1", "2", "3", "4">>)]),
                Obj([raw |-> Str(<<"5", "5", "5">>), extension |-> Str(<<"9">>)]),
                Obj([country_code |-> Number(1),
                     number |-> Str(<<"5", "5", "5", "1", "2", "3", "4">>)]),
                Obj([number |-> Str(<<"5", "5", "5", "1", "2", "3", "4">>)]) },
      name : { Undef, JoDoe,
               Obj([raw |-> Str(<<"J">>), first_name |-> Str(<<"J", "o">>)]),
               Obj([raw |-> JoDoe, last_name |-> Str(<<"D", "o", "e">>)]),
               Obj([first_name |-> Str(<<"J", "o">>), last_name |-> Str(<<"D">>)]) },
      address : { Undef,
                  Obj([raw |-> Str(<<"1", " ", "M", "a", "i", "n", " ", "S", "t">>),
                       city |-> Str(<<"R", "e", "n", "o">>)]),
                  Obj([city |-> Str(<<"R", "e", "n", "o">>)]) } ]

\* const request = client.buildRequest(input)
BuildRequest ==
    /\ built = Undef
    /\ built' = buildRequest(input)
    /\ UNCHANGED <<now, requests, calls, toIssue, config, input, validation, value, cleaned>>

\* const validation = validator.validateRequest(request)
Validate ==
    /\ built # Undef
    /\ ~validation.ran
    /\ validation' = ValidatorResult(built)
    /\ UNCHANGED <<now, requests, calls, toIssue, config, input, built, value, cleaned>>

InitBuild ==
    /\ ClientIdle
    /\ input \in { Chosen(pick) : pick \in BuildPicks } \cup { Chosen(pick) : pick \in ValidatePicks }
    /\ built = Undef
    /\ validation = NoValidation
    /\ value = Undef
    /\ cleaned = <<>>

NextBuild == BuildRequest \/ Validate

SpecBuild == InitBuild /\ [][NextBuild]_vars

----------------------------------------------------------------------------
(* SpecTool: one invocation of the score_transaction tool, from the input  *)
(* to the outcome of the call it makes on the client.  The tool exists     *)
(* twice: in tools.ts and in tools/score-transaction.ts.                   *)

RECURSIVE Plain(_)
\* The request as TrustAPIClient.validateRequest reads it: an object is the
\* record of its fields, a string its text.
Plain(x) ==
    IF TypeOf(x) = "object" THEN [k \in DOMAIN ValueOf(x) |-> Plain(ValueOf(x)[k])]
    ELSE IF TypeOf(x) = "array" THEN [i \in 1..Len(ValueOf(x)) |-> Plain(ValueOf(x)[i])]
    ELSE IF TypeOf(x) = "string" THEN Join(ValueOf(x))
    ELSE ValueOf(x)


\* The value an input gives each key, Undef for a key it does not have.
ToolPicks ==
    [ account : { Undef, Obj(<<>>) },
      email : { Undef, Str(<<"a", "@", "b", ".", "c", "o">>),
                Obj([address |-> Str(<<"a", "@", "b", ".", "c", "o">>)]),
                Obj([address |-> Str(<<"n", "o", "t", "-", "a", "n">>)]) },
      phone : { Undef, Obj([number |-> Str(<<"5", "5", "5", "1", "2", "3", "4">>)]),
                Obj([raw |-> Str(<<"5", "5", "5", "-", "1", "2", "3", "4">>),
                     number |-> Str(<<"5", "5", "5", "1", "2", "3", "4">>)]),
                Obj([raw |-> Str(<<"5", "5", "5", "-", "1", "2", "3", "4">>),
                     extension |-> Str(<<"9">>)]) },
      name : { Undef, JoDoe, Obj([first_name |-> Str(<<"J", "o">>)]) },
      address : { Undef,
                  Obj([raw |-> Str(<<"1", " ", "M", "a", "i", "n", " ", "S", "t">>),
                       unit |-> Str(<<"4">>)]) },
      device : { Undef, Str(<<"1", ".", "2", ".", "3", ".", "4">>),
                 Str(<<"9", "9", "9", ".", "1", ".", "1", ".", "1">>) } ]

\* ScoreTransactionTool.execute(input) of tools.ts, up to the first
\* suspension of scoreTransaction.
Execute ==
    /\ built = Undef
    /\ built' = buildRequest(input)
    /\ scoreTransaction(Plain(built'))
    /\ UNCHANGED <<now, config, input, validation, value, cleaned>>

\* ScoreTransactionTool.execute(input) of tools/score-transaction.ts, up to
\* its return on a request that is not valid or to the first suspension of
\* scoreTransaction.
ExecuteValidated ==
    /\ built = Undef
    /\ built' = buildRequest(input)
    /\ validation' = ValidatorResult(built')
    /\ IF ~validation'.valid
       THEN /\ toIssue > 0
            /\ toIssue' = toIssue - 1
            /\ UNCHANGED <<requests, calls>>
       ELSE scoreTransaction(Plain(built'))
    /\ UNCHANGED <<now, config, input, value, cleaned>>

\* The answers of the network to the call of the tool.
ToolResponses == { r \in Responses : r.status = 200 /\ r.body # InvalidJson }

\* The tool is invoked with one input on a client that has made no call.
InitTool ==
    /\ now = 0
    /\ requests = <<>>
    /\ calls = <<>>
    /\ toIssue = 1
    /\ maxRetries = CfgMaxRetries
    /\ retryDelay = CfgRetryDelay
    /\ timeout = CfgTimeout
    /\ rateLimitQPS = CfgRateLimitQPS
    /\ input \in { Chosen(pick) : pick \in ToolPicks }
    /\ built = Undef
    /\ validation = NoValidation
    /\ value = Undef
    /\ cleaned = <<>>

NextTool ==
    \/ Execute
    \/ ExecuteValidated
    \/ \E i \in DOMAIN calls, r \in ToolResponses : Respond(i, r)
    \/ \E i \in DOMAIN calls : AbortTimeout(i)
    \/ Tick

SpecTool == InitTool /\ [][NextTool]_vars

----------------------------------------------------------------------------
(* Properties.                                                             *)

Last(seq) == seq[Len(seq)]

\* The calls that entered applyRateLimit, in arrival order.
RateCalls == SelectSeq(calls, LAMBDA c : c.pc = "rateLimit" \/ c.admitAt # NoTime)

TimeoutError == TrustAPIError("Request timeout", Undefined, Some(408))
IsTimeout(c) == c.pc = "failed" /\ c.err = TimeoutError

\* A header text that is a number of seconds in decimal digits, and its
\* value.
IsSeconds(text) == text # <<>> /\ \A j \in 1..Len(text) : IsDigit(text[j])

RECURSIVE SecondsValue(_)
SecondsValue(text) ==
    IF text = <<>> THEN 0
    ELSE SecondsValue(SubSeq(text, 1, Len(text) - 1)) * 10 + DigitVal(Last(text))

RECURSIVE SumMs(_)
SumMs(ds) == IF ds = <<>> THEN 0 ELSE Head(ds)[1] + SumMs(Tail(ds))

\* C1: on a client with the default ceiling of 10, when the first 10 calls
\* of applyRateLimit were admitted at time 0, the 11th call is not admitted
\* before time 1000, and not before time 1010 when it arrived before 1000.
C1_EleventhNotBeforeWindow ==
    (/\ Len(RateCalls) > rateLimitQPS
     /\ \A i \in 1..rateLimitQPS : RateCalls[i].admitAt = 0
     /\ RateCalls[rateLimitQPS + 1].admitAt # NoTime)
    => /\ RateCalls[rateLimitQPS + 1].admitAt >= WindowMs
       /\ RateCalls[rateLimitQPS + 1].now < WindowMs
            => RateCalls[rateLimitQPS + 1].admitAt >= WindowMs + BufferMs

C1_Witness ==
    /\ rateLimitQPS = DefaultRateLimitQPS
    /\ Len(RateCalls) > rateLimitQPS
    /\ \A i \in 1..rateLimitQPS : RateCalls[i].admitAt = 0
    /\ RateCalls[rateLimitQPS + 1].now > 0
    /\ RateCalls[rateLimitQPS + 1].now < WindowMs
    /\ RateCalls[rateLimitQPS + 1].admitAt >= WindowMs + BufferMs

\* C2: the number of calls admitted by applyRateLimit within any trailing
\* 1000ms interval never exceeds the ceiling.
C2_AtMostCeilingPerWindow ==
    \A i \in DOMAIN calls :
        calls[i].admitAt # NoTime =>
            Cardinality({ j \in DOMAIN calls :
                            /\ calls[j].admitAt # NoTime
                            /\ calls[j].admitAt > calls[i].admitAt - WindowMs
                            /\ calls[j].admitAt <= calls[i].admitAt }) <= rateLimitQPS

\* C3: a call that entered makeRequest has made at least 1 and at most
\* maxRetries+1 network attempts, and its attempt counter is in
\* 1..maxRetries+1.
C3_AttemptsBounded ==
    \A i \in DOMAIN calls :
        calls[i].admitAt # NoTime =>
            /\ calls[i].fetches \in 1..(maxRetries + 1)
            /\ calls[i].attempt \in 1..(maxRetries + 1)
            /\ Len(calls[i].outcomes) <= calls[i].fetches

C3_Witness ==
    \E i \in DOMAIN calls :
        /\ calls[i].pc = "failed"
        /\ calls[i].fetches = maxRetries + 1
        /\ calls[i].attempt = maxRetries + 1
        /\ maxRetries >= DefaultMaxRetries

\* C4: when the timer aborts an attempt, the call fails at once with
\* 'Request timeout' / 408, without another attempt or backoff sleep,
\* and it stays failed.
C4_TimeoutFailsImmediately ==
    [][\A i \in DOMAIN calls :
         /\ AbortTimeout(i) =>
              /\ calls'[i].pc = "failed"
              /\ calls'[i].err = TimeoutError
              /\ calls'[i].fetches = calls[i].fetches
              /\ calls'[i].delays = calls[i].delays
         /\ IsTimeout(calls[i]) => calls'[i] = calls[i]]_vars

C4_Witness ==
    \E i \in DOMAIN calls :
        /\ IsTimeout(calls[i])
        /\ calls[i].attempt <= maxRetries
        /\ calls[i].endAt >= calls[i].admitAt + timeout

\* C5 as stated: every call that ends with the Timeout error made exactly
\* one network attempt in total.
C5_TimeoutExactlyOneAttempt ==
    \A i \in DOMAIN calls : IsTimeout(calls[i]) => calls[i].fetches = 1

\* C5 as amended: a call that ends with the Timeout error made exactly one
\* attempt that timed out, its last; it made one attempt in total when no
\* earlier attempt ended in a retried failure, and otherwise one attempt
\* more than it slept backoffs, at most maxRetries+1.
C5_TimeoutIsLastAttempt ==
    \A i \in DOMAIN calls :
        IsTimeout(calls[i]) =>
            /\ Last(calls[i].outcomes) = "abort"
            /\ \A j \in 1..(Len(calls[i].outcomes) - 1) : calls[i].outcomes[j] # "abort"
            /\ calls[i].fetches = Len(calls[i].outcomes)
            /\ calls[i].fetches = Len(calls[i].delays) + 1
            /\ calls[i].fetches <= maxRetries + 1

C5_Witness ==
    \E i \in DOMAIN calls :
        /\ IsTimeout(calls[i])
        /\ calls[i].fetches >= 2
        /\ calls[i].outcomes[1] = "5xx"

\* C6: a 429 at attempt k <= maxRetries makes the call sleep the seconds of
\* Retry-After times 1000 when the header gives seconds, retryDelay * k when
\* there is no header, and then make attempt k+1; a 429 at attempt
\* k > maxRetries fails the call with 'Rate limit exceeded', 1001, 429.
C6_RateLimitedRetry ==
    [][\A i \in DOMAIN calls :
         /\ \A r \in Responses :
              (r.status = 429 /\ Respond(i, r)) =>
                 IF calls[i].attempt <= maxRetries
                 THEN /\ calls'[i].pc = "sleep"
                      /\ calls'[i].delays = Append(calls[i].delays, Last(calls'[i].delays))
                      /\ r.retryAfter = Undefined =>
                            Last(calls'[i].delays) = Num(retryDelay * calls[i].attempt)
                      /\ (r.retryAfter # Undefined /\ IsSeconds(r.retryAfter[1])) =>
                            Last(calls'[i].delays) = Num(SecondsValue(r.retryAfter[1]) * 1000)
                      /\ calls'[i].wakeAt >= now
                      /\ Last(calls'[i].delays) # NaN =>
                            calls'[i].wakeAt >= now + Last(calls'[i].delays)[1]
                 ELSE /\ calls'[i].pc = "failed"
                      /\ calls'[i].err = TrustAPIError("Rate limit exceeded", Some(1001), Some(429))
         /\ (BackoffWake(i) /\ Last(calls[i].outcomes) = "429") =>
              /\ calls'[i].pc = "fetch"
              /\ calls'[i].attempt = calls[i].attempt + 1
              /\ calls'[i].fetches = calls[i].fetches + 1]_vars

C6_Witness ==
    \E i \in DOMAIN calls :
        /\ calls[i].pc = "failed"
        /\ calls[i].err = TrustAPIError("Rate limit exceeded", Some(1001), Some(429))
        /\ \A j \in 1..Len(calls[i].outcomes) : calls[i].outcomes[j] = "429"
        /\ \E j \in 1..Len(calls[i].delays) : calls[i].delays[j] = Num(2000)
        /\ \E j \in 1..Len(calls[i].delays) : calls[i].delays[j] = Num(retryDelay * j)

\* C7: a status >= 500 at attempt k <= maxRetries makes the call sleep
\* retryDelay * k; at attempt k > maxRetries the call fails with an error
\* that carries the status, and the message and code of the body, whatever
\* the body is.
C7_ServerErrorCarriesStatus ==
    [][\A i \in DOMAIN calls : \A r \in Responses :
         (r.status >= 500 /\ Respond(i, r)) =>
            IF calls[i].attempt <= maxRetries
            THEN /\ calls'[i].pc = "sleep"
                 /\ Last(calls'[i].delays) = Num(retryDelay * calls[i].attempt)
            ELSE /\ calls'[i].pc = "failed"
                 /\ "httpStatus" \in DOMAIN calls'[i].err
                 /\ calls'[i].err.httpStatus = r.status
                 /\ (r.body.parse = "object" /\ "message" \in DOMAIN r.body.data) =>
                       /\ calls'[i].err.message = r.body.data.message
                       /\ "code" \in DOMAIN calls'[i].err
                       /\ calls'[i].err.code = r.body.data.code]_vars

\* C8: a network fault other than the timeout at attempt k <= maxRetries
\* makes the call sleep retryDelay * k and then make attempt k+1; at attempt
\* k > maxRetries the call fails with an error that has neither a code nor
\* an httpStatus.
C8_NetworkFaultRetry ==
    [][\A i \in DOMAIN calls :
         /\ \A e \in Faults :
              NetworkFault(i, e) =>
                 IF calls[i].attempt <= maxRetries
                 THEN /\ calls'[i].pc = "sleep"
                      /\ calls'[i].delays =
                            Append(calls[i].delays, Num(retryDelay * calls[i].attempt))
                      /\ calls'[i].wakeAt >= now + retryDelay * calls[i].attempt
                 ELSE /\ calls'[i].pc = "failed"
                      /\ calls'[i].err.name = "TrustAPIError"
                      /\ calls'[i].err.message = e.message
                      /\ DOMAIN calls'[i].err = {"name", "message"}
         /\ (BackoffWake(i) /\ Last(calls[i].outcomes) = "fault") =>
              /\ calls'[i].pc = "fetch"
              /\ calls'[i].attempt = calls[i].attempt + 1
              /\ calls'[i].fetches = calls[i].fetches + 1]_vars

C8_Witness ==
    \E i \in DOMAIN calls :
        /\ calls[i].pc = "failed"
        /\ calls[i].fetches = maxRetries + 1
        /\ maxRetries >= 1
        /\ \A j \in 1..Len(calls[i].outcomes) : calls[i].outcomes[j] = "fault"
        /\ DOMAIN calls[i].err = {"name", "message"}

\* C9: a 2xx body with an error field fails scoreTransaction and
\* sendFeedback with that error's message and code, and the call makes no
\* further attempt.
DomainError(c) ==
    /\ c.pc = "failed"
    /\ c.outcomes # <<>>
    /\ Last(c.outcomes) = "2xx"
    /\ "code" \in DOMAIN c.err
    /\ "httpStatus" \notin DOMAIN c.err

C9_DomainErrorNotRetried ==
    [][\A i \in DOMAIN calls :
         /\ \A r \in Responses :
              (/\ Ok(r.status)
               /\ r.body.parse = "object"
               /\ "error" \in DOMAIN r.body.data
               /\ Respond(i, r)) =>
                 /\ calls'[i].pc = "failed"
                 /\ calls'[i].err.message = r.body.data.error.message
                 /\ "code" \in DOMAIN calls'[i].err
                 /\ calls'[i].err.code = r.body.data.error.code
                 /\ calls'[i].fetches = calls[i].fetches
                 /\ calls'[i].delays = calls[i].delays
         /\ DomainError(calls[i]) => calls'[i] = calls[i]]_vars

C9_Witness ==
    \E i \in DOMAIN calls :
        /\ DomainError(calls[i])
        /\ calls[i].err = TrustAPIError("Invalid API key", Some(1014), Undefined)
        /\ calls[i].attempt <= maxRetries

\* C10: after a failed attempt j caused by a status >= 500 or a network
\* fault the call sleeps retryDelay * j; a call that succeeds on attempt k
\* after such failures only has slept retryDelay * (1 + ... + (k-1)), and
\* at least that much time has passed since its first attempt.
LinearOnly(c) == \A j \in 1..Len(c.delays) : c.outcomes[j] \in {"5xx", "fault"}

C10_LinearBackoff ==
    \A i \in DOMAIN calls :
        /\ \A j \in 1..Len(calls[i].delays) :
              calls[i].outcomes[j] \in {"5xx", "fault"} =>
                  calls[i].delays[j] = Num(retryDelay * j)
        /\ (calls[i].pc = "done" /\ LinearOnly(calls[i])) =>
              /\ SumMs(calls[i].delays) =
                    retryDelay * ((calls[i].fetches * (calls[i].fetches - 1)) \div 2)
              /\ calls[i].endAt - calls[i].admitAt >= SumMs(calls[i].delays)

C10_Witness ==
    \E i \in DOMAIN calls :
        /\ calls[i].pc = "done"
        /\ calls[i].outcomes = <<"5xx", "5xx", "2xx">>
        /\ maxRetries >= DefaultMaxRetries
        /\ calls[i].endAt - calls[i].admitAt >= retryDelay * 1 + retryDelay * 2

\* A call that returned or threw.
Terminal(c) == c.pc \in {"done", "failed"}

\* A call that failed before applyRateLimit was entered.
FailedLocally(c) == c.pc = "failed" /\ c.admitAt = NoTime /\ c.outcomes = <<>>

\* C12: sendFeedback with 0 items or with more than 1000 items fails
\* without adding a timestamp to the window and without a fetch, and never
\* fetches afterwards; with 1 to 1000 items it enters applyRateLimit and,
\* once admitted, its timestamp is in the window and it fetches with PUT.
C12_FeedbackBounds ==
    /\ [][\A n \in FeedbackCounts :
            SendFeedback(n) =>
               LET c == Last(calls')
               IN  IF n < 1 \/ n > 1000
                   THEN /\ c.pc = "failed"
                        /\ requests' = requests
                        /\ c.fetches = 0
                        /\ c.admitAt = NoTime
                   ELSE /\ c.pc \in {"rateLimit", "fetch"}
                        /\ c.err = NoError
                        /\ Method(c.op) = "PUT"
                        /\ c.pc = "fetch" =>
                              /\ c.fetches = 1
                              /\ requests' # <<>>
                              /\ Last(requests') = now]_vars
    /\ [](\A i \in DOMAIN calls : FailedLocally(calls[i]) => calls[i].fetches = 0)

C12_Witness ==
    \E i \in DOMAIN calls :
        /\ calls[i].op = "feedback"
        /\ FailedLocally(calls[i])
        /\ calls[i].err.message = "Maximum 1000 feedback items allowed per request"
        /\ requests = <<>>
        /\ toIssue = 0

\* C14: every call that fails before applyRateLimit is entered throws an
\* error with a code; sendFeedback with fewer than 1 item throws code 2023
\* and with more than 1000 items code 1023.
C14_LocalFailureCarriesCode ==
    /\ [][\A n \in FeedbackCounts :
            SendFeedback(n) =>
               /\ n < 1 => /\ "code" \in DOMAIN Last(calls').err
                           /\ Last(calls').err.code = 2023
               /\ n > 1000 => /\ "code" \in DOMAIN Last(calls').err
                              /\ Last(calls').err.code = 1023]_vars
    /\ [](\A i \in DOMAIN calls :
            FailedLocally(calls[i]) => "code" \in DOMAIN calls[i].err)

\* C15: a call has no result and no error until it ends; it ends once,
\* either returning the body of a 2xx response that holds no error field,
\* or throwing one error with a message and at most a code and an
\* httpStatus; after a validation failure, a timeout, a network fault or a
\* response that is not 2xx as its last outcome the call has not returned
\* successfully; failures of earlier attempts leave no trace in the outcome.
C15_OneTerminalOutcome ==
    /\ [](\A i \in DOMAIN calls :
            /\ ~Terminal(calls[i]) =>
                  calls[i].result = NoResult /\ calls[i].err = NoError
            /\ calls[i].pc = "done" =>
                  /\ calls[i].result # NoResult
                  /\ calls[i].err = NoError
                  /\ calls[i].outcomes # <<>>
                  /\ Last(calls[i].outcomes) = "2xx"
                  /\ "error" \notin DOMAIN calls[i].result
            /\ calls[i].pc = "failed" =>
                  /\ calls[i].result = NoResult
                  /\ calls[i].err # NoError
                  /\ "message" \in DOMAIN calls[i].err
                  /\ DOMAIN calls[i].err \subseteq {"name", "message", "code", "httpStatus"})
    /\ [][\A i \in DOMAIN calls : Terminal(calls[i]) => calls'[i] = calls[i]]_vars

C15_Witness ==
    \E i \in DOMAIN calls :
        /\ calls[i].pc = "done"
        /\ calls[i].err = NoError
        /\ \E j \in 1..Len(calls[i].outcomes) : calls[i].outcomes[j] \in {"5xx", "429", "fault"}
        /\ calls[i].op = "feedback"

\* C18: cleanObject applied to what cleanObject returned returns the same
\* value.
C18_CleanIdempotent ==
    Len(cleaned) = 2 => cleaned[2] = cleaned[1]

C18_Witness ==
    /\ Len(cleaned) = 2
    /\ cleaned[2] = cleaned[1]
    /\ cleaned[1] \notin {value, Undef}
    /\ TypeOf(value) = "object"
    /\ \E k \in DOMAIN ValueOf(value) : TypeOf(ValueOf(value)[k]) = "array" /\ ValueOf(ValueOf(value)[k]) # <<>>

\* The members of a container.
Members(x) ==
    IF TypeOf(x) = "array" THEN { ValueOf(x)[i] : i \in 1..Len(ValueOf(x)) }
    ELSE IF TypeOf(x) = "object" THEN { ValueOf(x)[k] : k \in DOMAIN ValueOf(x) }
    ELSE {}

\* C19: cleanObject returns undefined exactly when the value is null or
\* undefined, a string that is '', 'n/a', 'na', 'null' or 'none' once
\* trimmed and in lower case, or an object or array whose every member
\* cleanObject turns into undefined.
C19_AbsentIff ==
    cleaned # <<>> =>
        (cleaned[1] = Undef <=>
            \/ TypeOf(value) \in {"null", "undefined"}
            \/ TypeOf(value) = "string" /\ ToLowerCase(Trim(ValueOf(value))) \in EmptyStrings
            \/ /\ TypeOf(value) \in {"object", "array"}
               /\ \A m \in Members(value) : cleanObject(m) = Undef)

\* The shape an identity field takes in the request: a string becomes
\* {raw: string}, an object stays as given.
Shaped(x) == IF TypeOf(x) = "string" THEN Obj([raw |-> x]) ELSE x

\* The keys of an object, none for any other value.
KeysOf(x) == IF TypeOf(x) = "object" THEN DOMAIN ValueOf(x) ELSE {}

\* C16: when the input has no account key, each name, email, phone or
\* address that holds a value is absent from the root of the request and
\* present, normalized, in an account group made of exactly those fields;
\* when the input has an account key, even an empty or null one, each such
\* field is at the root, normalized, and the account group of the request
\* has no key the input's account lacks and takes every identity field it
\* has from the input's account.
C16_FoldIffNoAccountKey ==
    built # Undef =>
        LET given == { k \in IdentityKeys : ~isEmptyValue(Get(input, k)) }
            account == Get(built, "account")
        IN  IF Get(input, "account") = Undef
            THEN /\ KeysOf(account) = given
                 /\ \A k \in given :
                        /\ Get(built, k) = Undef
                        /\ Get(account, k) = Shaped(Get(input, k))
            ELSE /\ KeysOf(account) \subseteq KeysOf(Get(input, "account"))
                 /\ \A k \in given : Get(built, k) = Shaped(Get(input, k))
                 /\ \A k \in KeysOf(account) \cap IdentityKeys :
                        Get(account, k) = cleanObject(Shaped(Get(Get(input, "account"), k)))

C16_Witness ==
    /\ built # Undef
    /\ Get(input, "account") = Obj(<<>>)
    /\ Get(input, "name") = JoDoe
    /\ Get(built, "name") = Obj([raw |-> JoDoe])
    /\ Get(built, "account") = Undef

\* A value that stands for "not provided": null or undefined, a string that
\* is '', 'n/a', 'na', 'null' or 'none' once trimmed and in lower case, an
\* object without keys or an array without items.
Vacant(x) ==
    \/ TypeOf(x) \in {"null", "undefined"}
    \/ TypeOf(x) = "string" /\ ToLowerCase(Trim(ValueOf(x))) \in EmptyStrings
    \/ TypeOf(x) \in {"object", "array"} /\ Members(x) = {}

RECURSIVE HoldsVacant(_)
\* Some field of x, at any depth, holds a value that stands for "not
\* provided".
HoldsVacant(x) == \E m \in Members(x) : Vacant(m) \/ HoldsVacant(m)

\* C17: no field of the request that buildRequest returns, at any depth,
\* holds null, an empty or sentinel string, an empty object or an empty
\* array.
C17_NoVacantField ==
    built # Undef => ~HoldsVacant(built)

\* The fields of the parts of a name, phone or address object.
PartFields(field) ==
    { field \o "." \o part :
        part \in {"raw", "first_name", "last_name", "country_code", "number",
                  "country", "state", "city"} }

\* C20: when RequestValidator reports the raw-with-other-fields Error
\* (code 1024) for a name, phone or address object, it emits no Warning for
\* that object or for any of its parts.
C20_ErrorSilencesWarning ==
    validation.ran =>
        \A i \in 1..Len(validation.errors) : \A j \in 1..Len(validation.warnings) :
            validation.errors[i].code = 1024 =>
                validation.warnings[j].field
                    \notin {validation.errors[i].field} \cup PartFields(validation.errors[i].field)

ObjectErrors(request) ==
    { PhoneError(getNestedValue(request, FieldPaths("phone")[i])[1], FieldPaths("phone")[i]) :
        i \in { j \in 1..4 : getNestedValue(request, FieldPaths("phone")[j]) # Undefined } }
    \cup
    { AddressError(getNestedValue(request, FieldPaths("address")[i])[1], FieldPaths("address")[i]) :
        i \in { j \in 1..4 : getNestedValue(request, FieldPaths("address")[j]) # Undefined } }
    \cup
    { NameError(getNestedValue(request, FieldPaths("name")[i])[1], FieldPaths("name")[i]) :
        i \in { j \in 1..4 : getNestedValue(request, FieldPaths("name")[j]) # Undefined } }

\* C13: a score call of the tool that local validation rejects hands the
\* caller every error found in the request: the error thrown is the only
\* error in the request's phone, address and name objects, and a
\* validation result handed back lists every Error of RequestValidator.
C13_CallerReceivesAllFindings ==
    /\ \A i \in DOMAIN calls :
           (built # Undef /\ calls[i].op = "score" /\ FailedLocally(calls[i])) =>
               ObjectErrors(Plain(built)) \ {Undefined} \subseteq {Some(calls[i].err)}
    /\ (validation.ran /\ ~validation.valid) =>
           validation.errors = ValidatorResult(built).errors

\* C21: normalizeField turns a string of kind name, email, phone or address
\* into {raw: value} and a string of kind device into {ip: value}; an
\* object and a value of any other kind come back unchanged; the input is
\* left as it was, and the request buildRequest returns holds the result.
C21_NormalizeField ==
    built # Undef =>
        \A k \in KeysOf(input) :
            /\ (TypeOf(ValueOf(input)[k]) = "string" /\ k \in IdentityKeys)
                  => normalizeField(k, ValueOf(input)[k]) = Obj([raw |-> ValueOf(input)[k]])
            /\ (TypeOf(ValueOf(input)[k]) = "string" /\ k = "device")
                  => normalizeField(k, ValueOf(input)[k]) = Obj([ip |-> ValueOf(input)[k]])
            /\ (TypeOf(ValueOf(input)[k]) \in {"object", "array"} \/ k \notin IdentityKeys \cup {"device"})
                  => normalizeField(k, ValueOf(input)[k]) = ValueOf(input)[k]
            /\ (k \in IdentityKeys /\ "account" \notin KeysOf(input) /\ ~isEmptyValue(ValueOf(input)[k]))
                  => Get(Get(built, "account"), k) = normalizeField(k, ValueOf(input)[k])
            /\ (k = "device" /\ ~isEmptyValue(ValueOf(input)[k]))
                  => Get(built, k) = normalizeField(k, ValueOf(input)[k])

C21_Witness ==
    /\ Get(input, "name") = JoDoe
    /\ Get(Get(built, "account"), "name") = Obj([raw |-> JoDoe])
    /\ TypeOf(Get(input, "device")) = "string"
    /\ Get(built, "device") = Obj([ip |-> Get(input, "device")])
    /\ TypeOf(Get(input, "email")) = "string"
    /\ TypeOf(Get(input, "action")) = "object"
    /\ normalizeField("action", Get(input, "action")) = Get(input, "action")

\* The time before which a call that entered applyRateLimit is not admitted:
\* the time it was admitted or, while it is suspended, the deadline of its
\* timer.
AdmittedNotBefore(c) == IF c.admitAt # NoTime THEN c.admitAt ELSE c.wakeAt

\* C22: admission through applyRateLimit is first in, first out: of two
\* calls that entered applyRateLimit, the one that arrived first is admitted
\* no later than the other.
C22_AdmissionFIFO ==
    \A i, j \in 1..Len(RateCalls) :
        (i < j /\ RateCalls[j].admitAt # NoTime)
            => AdmittedNotBefore(RateCalls[i]) <= RateCalls[j].admitAt

\* C23: a call that applyRateLimit suspended is admitted only when the
\* window, pruned again at the time of its admission, holds fewer entries
\* than the ceiling.
C23_RecheckAfterSuspension ==
    [][\A i \in DOMAIN calls :
          (calls[i].pc = "rateLimit" /\ calls'[i].admitAt # NoTime)
              => Len(Prune(requests, now - WindowMs)) < rateLimitQPS]_vars

\* C24: the entry applyRateLimit adds to the window for a call is the time
\* at which the call is admitted, so it lies within the trailing 1000ms at
\* the moment it is added.
C24_RecordsAdmissionTime ==
    [][\A i \in DOMAIN calls' :
          (/\ i \notin DOMAIN calls \/ calls[i].admitAt = NoTime
           /\ calls'[i].admitAt # NoTime)
              => /\ requests' # <<>>
                 /\ Last(requests') = calls'[i].admitAt
                 /\ Last(requests') > now' - WindowMs]_vars

\* C25: the rate window is ordered by non-decreasing timestamp, so its
\* first entry is the oldest one.
C25_WindowOrdered ==
    \A i, j \in DOMAIN requests : i < j => requests[i] <= requests[j]

\* The calls that start their first network attempt in a step.
FirstAttempts ==
    { i \in DOMAIN calls' :
        calls'[i].fetches = 1 /\ (i \notin DOMAIN calls \/ calls[i].fetches = 0) }

\* C26: a call that passes local validation adds exactly one entry to the
\* rate window, in the step in which it starts its first network attempt;
\* no other step adds an entry, so a retried attempt and a call that fails
\* local validation add none, and the window never holds more entries than
\* calls were admitted.
C26_OneEntryPerCall ==
    /\ [](Len(requests) <= Cardinality({ i \in DOMAIN calls : calls[i].admitAt # NoTime }))
    /\ [][/\ Cardinality(FirstAttempts) <= 1
          /\ FirstAttempts # {}
                => \E t \in { calls'[i].now : i \in FirstAttempts } :
                      requests' \in { Append(requests, t),
                                      Append(Prune(requests, now - WindowMs), t) }
          /\ FirstAttempts = {}
                => requests' \in { requests, Prune(requests, now - WindowMs) }
          /\ \A i \in DOMAIN calls :
                (calls[i].fetches >= 1 /\ calls'[i].fetches > calls[i].fetches)
                    => requests' = requests]_vars

C26_Witness ==
    /\ Len(calls) = 2
    /\ calls[1].fetches = 2
    /\ calls[2].admitAt > calls[2].now
    /\ calls[2].fetches = 2
    /\ Len(requests) = 2

\* C27: an attempt answered with a status in 400..499 other than 429 is the
\* last attempt of its call, and the call fails with an error that carries
\* that status, whatever the body of the response.
C27_ClientErrorFailsWithStatus ==
    \A i \in DOMAIN calls :
        \A j \in 1..Len(calls[i].outcomes) :
            calls[i].outcomes[j] = "4xx"
                => /\ j = Len(calls[i].outcomes)
                   /\ calls[i].fetches = j
                   /\ calls[i].pc = "failed"
                   /\ "httpStatus" \in DOMAIN calls[i].err
                   /\ calls[i].err.httpStatus \in 400..499

\* The code of the error TrustAPIClient.validateRequest raises for the
\* name, phone or address object at path, were it the only object of the
\* request; no code when it raises none.
ClientObjectCodes(field, object, path) ==
    { e[1].code :
        e \in { IF field = "phone" THEN PhoneError(object, path)
                ELSE IF field = "address" THEN AddressError(object, path)
                ELSE NameError(object, path) } \ {Undefined} }

\* The codes of the Errors RequestValidator reports for the object at path.
ValidatorObjectCodes(request, path) ==
    { ValidatorResult(request).errors[k].code :
        k \in { e \in 1..Len(ValidatorResult(request).errors) :
                  ValidatorResult(request).errors[e].field
                      = (IF Len(path) = 1 THEN path[1] ELSE path[1] \o "." \o path[2]) } }

\* C28: for every name, phone and address object of the request, at the
\* root and in account, billing and shipping, the check of the client
\* raises an error if and only if RequestValidator reports an Error for
\* the object, and with the same code.
C28_ValidatorsAgree ==
    built # Undef =>
        \A field \in {"name", "phone", "address"} : \A i \in 1..4 :
            getNestedValue(Plain(built), FieldPaths(field)[i]) # Undefined =>
                ClientObjectCodes(field, getNestedValue(Plain(built), FieldPaths(field)[i])[1],
                                  FieldPaths(field)[i])
                    = ValidatorObjectCodes(built, FieldPaths(field)[i])

\* C29: every call that was issued completes, with a value or with an
\* error, and stays completed: from some time on no call is suspended,
\* asleep or waiting for an answer; a call that applyRateLimit suspended
\* waits no longer than the window and its buffer, and a call makes at most
\* maxRetries+1 attempts.
C29_EveryCallCompletes ==
    /\ <>[](\A i \in DOMAIN calls : Terminal(calls[i]))
    /\ [](\A i \in DOMAIN calls :
             /\ calls[i].pc = "rateLimit" => calls[i].wakeAt <= calls[i].now + WindowMs + BufferMs
             /\ calls[i].fetches <= maxRetries + 1)

C29_Witness ==
    /\ Len(calls) = ConcCalls
    /\ \A i \in DOMAIN calls : Terminal(calls[i])
    /\ calls[2].admitAt > calls[2].now
    /\ calls[2].fetches = maxRetries + 1
    /\ Len(calls[2].delays) = maxRetries
    /\ calls[1].pc = "done"

\* What the attempts of a call came to, read from its own exchanges alone:
\* the attempt counter and the number of fetches follow the number of
\* backoff sleeps, each sleep follows a 5xx answer or a fault and lasts
\* retryDelay times its attempt, the call returns after a 2xx answer, and it
\* times out no sooner than timeout after its last attempt could start.
CallLocal(c) ==
    /\ c.attempt = Len(c.delays) + (IF c.pc = "sleep" THEN 0 ELSE 1)
    /\ c.fetches = c.attempt
    /\ \A k \in 1..Len(c.delays) :
           c.delays[k] = Num(retryDelay * k) /\ c.outcomes[k] \in {"5xx", "fault"}
    /\ c.pc = "done" <=> (Len(c.outcomes) = c.attempt /\ Last(c.outcomes) = "2xx")
    /\ c.pc = "failed"
           <=> (Len(c.outcomes) = c.attempt
                  /\ \/ Last(c.outcomes) = "abort"
                     \/ Last(c.outcomes) \in {"5xx", "fault"} /\ c.attempt > maxRetries)
    /\ IsTimeout(c)
           <=> (Len(c.outcomes) = c.attempt /\ Last(c.outcomes) = "abort")
    /\ IsTimeout(c) => c.endAt >= c.admitAt + SumMs(c.delays) + timeout

\* C30: concurrent calls share the rate window and nothing else: a step
\* changes the record of at most one call, a fetch is aborted only by the
\* timer armed for it, and the attempts, delays and outcome of a call follow
\* from its own exchanges.
C30_CallsShareOnlyTheWindow ==
    /\ [](\A i \in DOMAIN calls : calls[i].admitAt # NoTime => CallLocal(calls[i]))
    /\ [][\A i \in DOMAIN calls :
            /\ calls'[i] # calls[i]
                  => \A j \in DOMAIN calls \ {i} : calls'[j] = calls[j]
            /\ (Len(calls'[i].outcomes) > Len(calls[i].outcomes)
                  /\ Last(calls'[i].outcomes) = "abort")
                  => /\ calls[i].abortAt # NoTime
                     /\ now >= calls[i].abortAt
                     /\ calls[i].abortAt >= calls[i].admitAt + SumMs(calls[i].delays) + timeout]_vars

C30_Witness ==
    /\ Len(calls) = 2
    /\ IsTimeout(calls[1])
    /\ calls[1].fetches = 2
    /\ calls[2].pc = "fetch"
    /\ calls[2].admitAt < calls[1].endAt
    /\ calls[2].fetches = 1
    /\ calls[2].abortAt > now

====
